---- MODULE Spec2Model ----
(***************************************************************************)
(* A model of the normalized entity store (Repo), its entities (Model)     *)
(* and its query results (Query).                                          *)
(*                                                                         *)
(* JavaScript objects that the code shares between snapshots and mutates   *)
(* in place are kept in a heap, addressed by their position:               *)
(*   models : Model instances (immutable but for the relations object      *)
(*            they point at)                                               *)
(*   robjs  : the `relations` objects of Model instances                   *)
(*   arrs   : the arrays held as values of relationMap                     *)
(*   bkts   : the inner objects of relationIndex and queryIndex            *)
(* A snapshot (Repo) is a record of five maps whose values are addresses   *)
(* into that heap (or immutable values).                                   *)
(***************************************************************************)
EXTENDS Integers, Sequences, FiniteSets, TLC

VARIABLES heap, repo, held, prev, last, nops, pending, outcomes, nreq

vars == <<heap, repo, held, prev, last, nops, pending, outcomes, nreq>>

(***************************************************************************)
(* Generic helpers for JavaScript objects used as maps and for arrays.     *)
(***************************************************************************)
EmptyMap == <<>>

Has(f, k) == k \in DOMAIN f

Put(f, k, v) == [x \in (DOMAIN f) \cup {k} |-> IF x = k THEN v ELSE f[x]]

Del(f, k) == [x \in (DOMAIN f) \ {k} |-> f[x]]

Merge(f, g) ==
  [x \in (DOMAIN f) \cup (DOMAIN g) |-> IF x \in DOMAIN g THEN g[x] ELSE f[x]]

Range(s) == {s[i] : i \in DOMAIN s}

\* obj[k] = true on an object used as an insertion-ordered set of keys
AddKey(s, k) == IF k \in Range(s) THEN s ELSE Append(s, k)

\* delete obj[k]
RemoveKey(s, k) == SelectSeq(s, LAMBDA x : x # k)

(***************************************************************************)
(* The relation descriptor tables and schemas of the entity types          *)
(* (Post, Author, Comment).                                                *)
(***************************************************************************)
Classes == {"Post", "Author", "Comment"}

\* the relation names of a class, in declaration order (for ... in order)
RelationNames(cls) ==
  CASE cls = "Post" -> <<"author", "comments">>
    [] cls = "Author" -> <<"posts", "comments">>
    [] cls = "Comment" -> <<"author", "post">>

Relations(cls) ==
  CASE cls = "Post" ->
         [author |-> [cardinality |-> "one", modelClass |-> "Author", inverse |-> "posts"],
          comments |-> [cardinality |-> "many", modelClass |-> "Comment", inverse |-> "post"]]
    [] cls = "Author" ->
         [posts |-> [cardinality |-> "many", modelClass |-> "Post", inverse |-> "author"],
          comments |-> [cardinality |-> "many", modelClass |-> "Comment", inverse |-> "author"]]
    [] cls = "Comment" ->
         [author |-> [cardinality |-> "one", modelClass |-> "Author", inverse |-> "comments"],
          post |-> [cardinality |-> "one", modelClass |-> "Post", inverse |-> "posts"]]

\* relation.inverse ? relation.modelClass.relations[relation.inverse] : undefined
HasInverse(cls, name) ==
  Relations(cls)[name].inverse \in DOMAIN Relations(Relations(cls)[name].modelClass)

InverseRelation(cls, name) ==
  Relations(Relations(cls)[name].modelClass)[Relations(cls)[name].inverse]

\* defaultRecord(schema): every required property gets its default, or the
\* default of its type (0 for the integer id, '' for a string)
defaultRecord(cls) ==
  CASE cls = "Post" -> [id |-> 0, title |-> "New Post"]
    [] cls = "Author" -> [id |-> 0, firstName |-> "First", lastName |-> "Last"]
    [] cls = "Comment" -> [id |-> 0, text |-> ""]

Properties(cls) == DOMAIN defaultRecord(cls)

\* the string properties declared with minLength: 1
MinLength1(cls) ==
  CASE cls = "Post" -> {"title"}
    [] cls = "Author" -> {"firstName", "lastName"}
    [] cls = "Comment" -> {}

\* ajv validation of a record against the schema of its class: all schemas
\* require every property and forbid additional ones
Validates(cls, rec) ==
  /\ DOMAIN rec = Properties(cls)
  /\ \A a \in MinLength1(cls) : rec[a] # ""

\* defaultRelations()
defaultRelations(cls) ==
  [n \in DOMAIN Relations(cls) |->
     IF Relations(cls)[n].cardinality = "many" THEN <<>> ELSE -1]

(***************************************************************************)
(* Values.                                                                 *)
(*   raw relation values of an input record are tagged:                    *)
(*     [t |-> "null"], [t |-> "id", id |-> 7], [t |-> "rec", rec |-> r],   *)
(*     [t |-> "arr", arr |-> <<...>>], [t |-> "bad"] (any other value)     *)
(*   relationMap values: [t |-> "arr", a |-> address], [t |-> "key",       *)
(*     k |-> modelKey], [t |-> "null"]                                     *)
(*   a relation slot of a Model: -1 is null, 0 is undefined, n > 0 is the  *)
(*     address of a Model instance; a to-many slot is a sequence of 0 / n  *)
(*   a row of a Query: 0 is a hole (or undefined), n > 0 a Model instance  *)
(***************************************************************************)
Null == [t |-> "null"]

Id(n) == [t |-> "id", id |-> n]

Rec(r) == [t |-> "rec", rec |-> r]

Arr(s) == [t |-> "arr", arr |-> s]

Bad == [t |-> "bad"]

Undefined == "undefined"

ModelKey(cls, id) == <<cls, id>>

RelationKey(modelKey, name) == <<modelKey[1], modelKey[2], name>>

\* relationKey.split('|').slice(0, 2).join('|')
OwnerKey(relationKey) == <<relationKey[1], relationKey[2]>>

EmptyHeap == [models |-> <<>>, robjs |-> <<>>, arrs |-> <<>>, bkts |-> <<>>]

\* new Repo()
EmptyRepo ==
  [modelMap |-> EmptyMap, relationMap |-> EmptyMap, queryMap |-> EmptyMap,
   relationIndex |-> EmptyMap, queryIndex |-> EmptyMap]

\* identifiers are numbers or strings; the values from Abc on stand for
\* strings ('abc'), the ones below for the numbers they are
Abc == 100

typeof(id) == IF id >= Abc THEN "string" ELSE "number"

\* const isLoadable = x => typeof x === 'object' && 'id' in x &&
\*   (typeof x.id === 'number' || typeof x === 'string')
\* applied to a record (an object): typeof x is 'object', so the record
\* must have a numeric id
isLoadable(record) == "id" \in DOMAIN record /\ typeof(record.id) = "number"

(***************************************************************************)
(* Evaluation contexts.  An operation of Repo runs over a context: the     *)
(* heap, the operation's own shallow copies of the receiver's maps, its    *)
(* work queues, and err, the error thrown ("" while none).  Once err is    *)
(* set nothing more is done; what was written to the heap before stays.    *)
(* shifted and visited count the items that recordQueue.shift() and        *)
(* dirtyModelQueue.shift() have handed to the two while loops of upsert.   *)
(***************************************************************************)
Context(h, this) ==
  [models |-> h.models, robjs |-> h.robjs, arrs |-> h.arrs, bkts |-> h.bkts,
   modelMap |-> this.modelMap, relationMap |-> this.relationMap,
   relationIndex |-> this.relationIndex, queryMap |-> this.queryMap,
   queryIndex |-> this.queryIndex,
   recordQueue |-> <<>>, record |-> EmptyMap,
   dirtyModelKeys |-> <<>>, dirtyModelQueue |-> <<>>, err |-> "",
   shifted |-> 0, visited |-> 0]

HeapOf(c) == [models |-> c.models, robjs |-> c.robjs, arrs |-> c.arrs, bkts |-> c.bkts]

\* new Repo({modelMap, relationMap, relationIndex, queryMap, queryIndex})
RepoOf(c) ==
  [modelMap |-> c.modelMap, relationMap |-> c.relationMap, queryMap |-> c.queryMap,
   relationIndex |-> c.relationIndex, queryIndex |-> c.queryIndex]

Throw(c, e) == [c EXCEPT !.err = e]

\* the statements F that follow a statement that may throw, applied to the
\* context c it leaves: skipped when it has thrown
Then(c, F(_)) == IF c.err # "" THEN c ELSE F(c)

\* a relationMap entry that is neither undefined nor null
Truthy(relationMap, k) == Has(relationMap, k) /\ relationMap[k].t # "null"

\* index[mk] = index[mk] || {}; index[mk][k] = true, on the operation's
\* shallow copy of an index: an existing inner object is written in place
BucketAdd(bkts, index, mk, k) ==
  IF Has(index, mk)
  THEN [bkts |-> [bkts EXCEPT ![index[mk]] = AddKey(@, k)], index |-> index]
  ELSE [bkts |-> Append(bkts, <<k>>), index |-> Put(index, mk, Len(bkts) + 1)]

IndexAdd(c, mk, rk) ==
  LET r == BucketAdd(c.bkts, c.relationIndex, mk, rk)
  IN [c EXCEPT !.bkts = r.bkts, !.relationIndex = r.index]

\* delete relationIndex[mk][rk]
IndexDelete(c, mk, rk) ==
  IF Has(c.relationIndex, mk)
  THEN [c EXCEPT !.bkts[c.relationIndex[mk]] = RemoveKey(@, rk)]
  ELSE Throw(c, "TypeError")

(***************************************************************************)
(* Model: constructor and update.                                          *)
(***************************************************************************)
\* new modelClass({state, record, errors}): the record is merged over the
\* schema defaults and validated; relations defaults to a fresh object
Model_new(c, cls, state, record, errors) ==
  LET rec == Merge(defaultRecord(cls), record)
  IN IF ~Validates(cls, rec) THEN Throw(c, "ValidationError")
     ELSE [c EXCEPT !.robjs = Append(@, defaultRelations(cls)),
                    !.models = Append(@, [cls |-> cls, state |-> state, record |-> rec,
                                          errors |-> errors, dirty |-> {},
                                          dirtyRelations |-> {},
                                          relations |-> Len(c.robjs) + 1])]

\* model.update({state, record, errors}) with a record object that is not
\* this.record: dirty, dirtyRelations and the relations OBJECT are this's;
\* validate is Object.keys(dirty).length === 0
Model_update(c, m, state, record, errors) ==
  LET this == c.models[m]
      rec == Merge(defaultRecord(this.cls), record)
  IN IF this.dirty = {} /\ ~Validates(this.cls, rec) THEN Throw(c, "ValidationError")
     ELSE [c EXCEPT !.models = Append(@, [cls |-> this.cls, state |-> state, record |-> rec,
                                          errors |-> errors, dirty |-> this.dirty,
                                          dirtyRelations |-> this.dirtyRelations,
                                          relations |-> this.relations])]

\* the address of the instance the last Model_new / Model_update made
Newest(c) == Len(c.models)

(***************************************************************************)
(* Repo.upsert, phase A: the record queue.                                 *)
(***************************************************************************)
\* for (const relatedKey of relationMap[relationKey]): the elements of an
\* array; of a string (the value of a to-one relation, 'Author|10') its
\* characters, and no `${character}|${inverse}` is a key of relationMap, so
\* every such iteration ends at the first `continue`
StaleTargets(c, relationKey) ==
  IF c.relationMap[relationKey].t = "arr" THEN c.arrs[c.relationMap[relationKey].a]
  ELSE <<>>

\* the switch on inverseRelation.cardinality of the stale-clearing loop:
\* a filtered copy of a to-many inverse, null for a to-one inverse
Retract(c, cls, modelKey, name, inverseRelationKey) ==
  IF InverseRelation(cls, name).cardinality = "many"
  THEN [c EXCEPT
          !.arrs = Append(@, SelectSeq(c.arrs[c.relationMap[inverseRelationKey].a],
                                       LAMBDA k : k # modelKey)),
          !.relationMap = Put(@, inverseRelationKey, [t |-> "arr", a |-> Len(c.arrs) + 1])]
  ELSE [c EXCEPT !.relationMap = Put(@, inverseRelationKey, Null)]

\* one pass of the stale-clearing loop
ClearOne(c, cls, modelKey, name, relatedKey, inverseRelationKey) ==
  IF ~Truthy(c.relationMap, inverseRelationKey) THEN c
  ELSE Then(IndexDelete(c, relatedKey, RelationKey(modelKey, name)),
            LAMBDA c1 : Retract(c1, cls, modelKey, name, inverseRelationKey))

RECURSIVE ClearStale(_, _, _, _, _)
ClearStale(c, cls, modelKey, name, targets) ==
  IF targets = <<>> \/ c.err # "" THEN c
  ELSE ClearStale(ClearOne(c, cls, modelKey, name, Head(targets),
                           RelationKey(Head(targets), Relations(cls)[name].inverse)),
                  cls, modelKey, name, Tail(targets))

\* relationMap[inverseRelationKey] = relationMap[inverseRelationKey] || []
EnsureArray(c, inverseRelationKey) ==
  IF Truthy(c.relationMap, inverseRelationKey) THEN c
  ELSE [c EXCEPT !.arrs = Append(@, <<>>),
                 !.relationMap = Put(@, inverseRelationKey,
                                     [t |-> "arr", a |-> Len(c.arrs) + 1])]

\* if (!relationMap[inverseRelationKey].includes(modelKey)) ....push(modelKey):
\* the array is written in place
PushKey(c, inverseRelationKey, modelKey) ==
  [c EXCEPT !.arrs[c.relationMap[inverseRelationKey].a] = AddKey(@, modelKey)]

\* the switch on inverseRelation.cardinality when an edge is installed
SetInverse(c, cls, modelKey, name, inverseRelationKey) ==
  IF InverseRelation(cls, name).cardinality = "many"
  THEN PushKey(EnsureArray(c, inverseRelationKey), inverseRelationKey, modelKey)
  ELSE [c EXCEPT !.relationMap = Put(@, inverseRelationKey, [t |-> "key", k |-> modelKey])]

\* install the inverse edge of (modelKey, name) -> relatedKey
InstallInverse(c, cls, modelKey, name, relatedKey) ==
  SetInverse(IndexAdd(c, modelKey, RelationKey(relatedKey, Relations(cls)[name].inverse)),
             cls, modelKey, name, RelationKey(relatedKey, Relations(cls)[name].inverse))

\* a recordQueue.push that queues the related record twice: the variant of
\* Enqueue that C39 is checked against
EnqueueTwice(c, modelClass, relatedRecord) ==
  [c EXCEPT !.recordQueue =
     Append(Append(@, [modelClass |-> modelClass, record |-> relatedRecord]),
            [modelClass |-> modelClass, record |-> relatedRecord])]

\* recordQueue.push({modelClass: relation.modelClass, record: relatedRecord})
Enqueue(c, modelClass, relatedRecord) ==
  [c EXCEPT !.recordQueue = Append(@, [modelClass |-> modelClass, record |-> relatedRecord])]

\* what both cardinalities do with one related record: the inverse edge,
\* recordQueue.push, relationIndex[relatedKey][relationKey] = true
LoadRelated(c, cls, modelKey, name, relatedKey, relatedRecord) ==
  IndexAdd(Enqueue(IF HasInverse(cls, name)
                   THEN InstallInverse(c, cls, modelKey, name, relatedKey)
                   ELSE c,
                   Relations(cls)[name].modelClass, relatedRecord),
           relatedKey, RelationKey(modelKey, name))

\* a related value that names an entity: a record with an id, or a bare id
Names(r) == (r.t = "rec" /\ isLoadable(r.rec)) \/ r.t = "id"

\* the record queued for such a value: the record itself, or {id: r}
RelatedRecord(r) == IF r.t = "rec" THEN r.rec ELSE [id |-> r.id]

\* the elements of a to-many value, in order; relatedKeys accumulates.
\* isLoadable(null) reads a property of null
RECURSIVE LoadMany(_, _, _, _, _, _)
LoadMany(c, cls, modelKey, name, related, relatedKeys) ==
  IF c.err # "" THEN c
  ELSE IF related = <<>>
  THEN [c EXCEPT !.arrs = Append(@, relatedKeys),
                 !.relationMap = Put(@, RelationKey(modelKey, name),
                                     [t |-> "arr", a |-> Len(c.arrs) + 1])]
  ELSE IF Names(Head(related))
  THEN LoadMany(LoadRelated(c, cls, modelKey, name,
                            ModelKey(Relations(cls)[name].modelClass,
                                     RelatedRecord(Head(related)).id),
                            RelatedRecord(Head(related))),
                cls, modelKey, name, Tail(related),
                Append(relatedKeys, ModelKey(Relations(cls)[name].modelClass,
                                             RelatedRecord(Head(related)).id)))
  ELSE IF Head(related).t = "null" THEN Throw(c, "TypeError")
  ELSE Throw(c, "Error: unloadable to-many record")

\* a to-one value: null, a loadable record, or an id; ANY OTHER value leaves
\* relatedKey and relatedRecord null
LoadOne(c, cls, modelKey, name, related) ==
  IF Names(related)
  THEN LoadRelated([c EXCEPT !.relationMap =
                       Put(@, RelationKey(modelKey, name),
                           [t |-> "key", k |-> ModelKey(Relations(cls)[name].modelClass,
                                                        RelatedRecord(related).id)])],
                   cls, modelKey, name,
                   ModelKey(Relations(cls)[name].modelClass, RelatedRecord(related).id),
                   RelatedRecord(related))
  ELSE [c EXCEPT !.relationMap = Put(@, RelationKey(modelKey, name), Null)]

\* the switch on relation.cardinality
Load(c, cls, modelKey, name, related) ==
  IF Relations(cls)[name].cardinality = "many"
  THEN IF related.t # "arr" THEN Throw(c, "Error: to-many relation is not an array")
       ELSE LoadMany(c, cls, modelKey, name, related.arr, <<>>)
  ELSE LoadOne(c, cls, modelKey, name, related)

\* clear stale inverse relations
Clear(c, cls, modelKey, name) ==
  IF HasInverse(cls, name) /\ Truthy(c.relationMap, RelationKey(modelKey, name))
  THEN ClearStale(c, cls, modelKey, name, StaleTargets(c, RelationKey(modelKey, name)))
  ELSE c

\* one pass of `for (const relationName in modelClass.relations)`: the
\* relation is split out of the record
ProcessRelation(c, cls, modelKey, name, related) ==
  Then(Clear([c EXCEPT !.record = Del(@, name)], cls, modelKey, name),
       LAMBDA c1 : Load(c1, cls, modelKey, name, related))

RECURSIVE ProcessRelations(_, _, _, _)
ProcessRelations(c, cls, modelKey, names) ==
  IF names = <<>> \/ c.err # "" THEN c
  ELSE ProcessRelations(IF Has(c.record, Head(names))
                        THEN ProcessRelation(c, cls, modelKey, Head(names),
                                             c.record[Head(names)])
                        ELSE c,
                        cls, modelKey, Tail(names))

\* model = modelMap[modelKey]; model.update({...}) or new modelClass({...})
MergeModel(c, cls, modelKey, state, errors) ==
  IF Has(c.modelMap, modelKey)
  THEN Model_update(c, c.modelMap[modelKey], state,
                    Merge(c.models[c.modelMap[modelKey]].record, c.record), errors)
  ELSE Model_new(c, cls, state, c.record, errors)

\* modelMap[modelKey] = model; dirtyModelKeys[modelKey] = true
Stage(c, modelKey) ==
  [c EXCEPT !.modelMap = Put(@, modelKey, Newest(c)),
            !.dirtyModelKeys = AddKey(@, modelKey)]

\* one item of the record queue
ProcessItem(c, cls, record, modelKey, state, errors) ==
  Then(Then(ProcessRelations([c EXCEPT !.record = record], cls, modelKey,
                             RelationNames(cls)),
            LAMBDA c1 : MergeModel(c1, cls, modelKey, state, errors)),
       LAMBDA c2 : Stage(c2, modelKey))

RECURSIVE ProcessQueue(_, _, _)
ProcessQueue(c, state, errors) ==
  IF c.recordQueue = <<>> \/ c.err # "" THEN c
  ELSE IF ~isLoadable(Head(c.recordQueue).record)
  THEN Throw(c, "Error: record without an id")
  ELSE ProcessQueue(ProcessItem([c EXCEPT !.recordQueue = Tail(@),
                                          !.shifted = @ + 1],
                                Head(c.recordQueue).modelClass,
                                Head(c.recordQueue).record,
                                ModelKey(Head(c.recordQueue).modelClass,
                                         Head(c.recordQueue).record.id),
                                state, errors),
                    state, errors)

(***************************************************************************)
(* Query.                                                                  *)
(***************************************************************************)
\* an absent optional argument or field, and a present one
None == <<>>

Some(x) == <<x>>

\* a digest that does not tell options values apart: the variant of hash
\* that C23 is checked against
hashAlike(options) == {}

\* a digest of the key/value pairs in the order they were inserted: the
\* variant of hash that C28 is checked against
hashOrdered(options) == options

\* hash(options): object-hash digests the key/value pairs of the options
\* object whatever their order; options are sequences of <<key, value>>
hash(options) == Range(options)

QueryId(cls, options) == <<cls, hash(options)>>

\* new Query(modelClass, {state, options, error, pageSize, models, pendingPages})
Query_new(modelClass, state, options, error, pageSize, models, pendingPages) ==
  [modelClass |-> modelClass, state |-> state, options |-> options, error |-> error,
   pageSize |-> pageSize, models |-> models, pendingPages |-> pendingPages]

\* x || y on strings that may be undefined
OrElse(x, y) == IF x = Undefined \/ x = "" THEN y ELSE x

\* query.update({state, models, pendingPages, error}): pageSize is neither
\* taken from the argument nor passed on to the new Query
Query_update(this, state, models, pendingPages, error) ==
  Query_new(this.modelClass, OrElse(state, this.state), this.options,
            OrElse(error, this.error), None,
            IF models = None THEN this.models ELSE models[1],
            IF pendingPages = None THEN this.pendingPages ELSE pendingPages[1])

(***************************************************************************)
(* Repo.upsert, phase B: propagation over the relation index, resolving    *)
(* the relation slots of every dirty model, rewriting the query rows.      *)
(***************************************************************************)
Bucket(c, index, modelKey) == IF Has(index, modelKey) THEN c.bkts[index[modelKey]] ELSE <<>>

\* modelMap[relatedModelKey] = modelMap[relatedModelKey].update();
\* dirtyModelQueue.push(relatedModelKey)
Rederive(c, relatedModelKey) ==
  IF ~Has(c.modelMap, relatedModelKey) THEN Throw(c, "TypeError")
  ELSE Then(Model_update(c, c.modelMap[relatedModelKey],
                         c.models[c.modelMap[relatedModelKey]].state,
                         c.models[c.modelMap[relatedModelKey]].record,
                         c.models[c.modelMap[relatedModelKey]].errors),
            LAMBDA c1 : [c1 EXCEPT !.modelMap = Put(@, relatedModelKey, Newest(c1)),
                                   !.dirtyModelQueue = Append(@, relatedModelKey)])

\* for (const relationKey in relationIndex[modelKey]) of the second loop
RECURSIVE PropagateBucket(_, _)
PropagateBucket(c, keys) ==
  IF keys = <<>> \/ c.err # "" THEN c
  ELSE PropagateBucket(IF OwnerKey(Head(keys)) \in Range(c.dirtyModelKeys) THEN c
                       ELSE Rederive(c, OwnerKey(Head(keys))),
                       Tail(keys))

\* while ((modelKey = dirtyModelQueue.shift()))
RECURSIVE Propagate(_)
Propagate(c) ==
  IF c.dirtyModelQueue = <<>> \/ c.err # "" THEN c
  ELSE Propagate(PropagateBucket(
                   [c EXCEPT !.dirtyModelQueue = Tail(@),
                             !.visited = @ + 1,
                             !.dirtyModelKeys = AddKey(@, Head(c.dirtyModelQueue))],
                   Bucket(c, c.relationIndex, Head(c.dirtyModelQueue))))

\* modelMap[k] as a slot or row entry: 0 when undefined
Instance(c, k) == IF Has(c.modelMap, k) THEN c.modelMap[k] ELSE 0

\* the new value of model.relations[name] of the model at modelKey
ResolveSlot(c, cls, modelKey, name, old) ==
  IF ~Has(c.relationMap, RelationKey(modelKey, name)) THEN old
  ELSE IF Relations(cls)[name].cardinality = "many"
  THEN [i \in 1..Len(c.arrs[c.relationMap[RelationKey(modelKey, name)].a]) |->
          Instance(c, c.arrs[c.relationMap[RelationKey(modelKey, name)].a][i])]
  ELSE IF c.relationMap[RelationKey(modelKey, name)].t = "key"
  THEN Instance(c, c.relationMap[RelationKey(modelKey, name)].k)
  ELSE -1

\* for (const relationName in model.ctor.relations): the relations OBJECT of
\* the model m is assigned to in place
ResolveSlots(c, modelKey, m) ==
  [c EXCEPT !.robjs[c.models[m].relations] =
     [n \in DOMAIN @ |-> ResolveSlot(c, c.models[m].cls, modelKey, n, @[n])]]

\* query.models.map(m => (m?.id === model.id ? model : m))
RewriteRows(c, models, m) ==
  [i \in 1..Len(models) |->
     IF models[i] > 0 /\ c.models[models[i]].record.id = c.models[m].record.id
     THEN m ELSE models[i]]

\* for (const queryKey in this.queryIndex[modelKey])
RECURSIVE RewriteQueries(_, _, _)
RewriteQueries(c, m, queryKeys) ==
  IF queryKeys = <<>> \/ c.err # "" THEN c
  ELSE IF ~Has(c.queryMap, Head(queryKeys)) THEN Throw(c, "TypeError")
  ELSE RewriteQueries(
         [c EXCEPT !.queryMap =
            Put(@, Head(queryKeys),
                Query_update(c.queryMap[Head(queryKeys)], Undefined,
                             Some(RewriteRows(c, c.queryMap[Head(queryKeys)].models, m)),
                             None, Undefined))],
         m, Tail(queryKeys))

\* for (modelKey in dirtyModelKeys)
RECURSIVE Resolve(_, _)
Resolve(c, keys) ==
  IF keys = <<>> \/ c.err # "" THEN c
  ELSE Resolve(RewriteQueries(ResolveSlots(c, Head(keys), c.modelMap[Head(keys)]),
                              c.modelMap[Head(keys)],
                              Bucket(c, c.queryIndex, Head(keys))),
               Tail(keys))

\* what an operation of Repo returns: the heap it leaves, the snapshot it
\* returns (the receiver when it throws), and the error thrown
Result(c, this) ==
  [heap |-> HeapOf(c), repo |-> IF c.err = "" THEN RepoOf(c) ELSE this, err |-> c.err]

\* the queue of records: one record, or the elements of an array
Queue(c, klass, records) ==
  [c EXCEPT !.recordQueue =
     [i \in 1..Len(records) |-> [modelClass |-> klass, record |-> records[i]]]]

\* const dirtyModelQueue = Object.keys(dirtyModelKeys)
StartPropagation(c) == Propagate([c EXCEPT !.dirtyModelQueue = c.dirtyModelKeys])

\* repo.upsert(klass, records, {state, errors})
upsert(h, this, klass, records, state, errors) ==
  Result(Then(Then(ProcessQueue(Queue(Context(h, this), klass, records), state, errors),
                   LAMBDA c1 : StartPropagation(c1)),
              LAMBDA c2 : Resolve(c2, c2.dirtyModelKeys)),
         this)

\* repo.getModel(modelClass, id): the address of the instance, 0 if undefined
getModel(this, modelClass, id) ==
  IF Has(this.modelMap, ModelKey(modelClass, id)) THEN this.modelMap[ModelKey(modelClass, id)]
  ELSE 0

\* repo.getQuery(modelClass, options): None if undefined
getQuery(this, modelClass, options) ==
  IF Has(this.queryMap, QueryId(modelClass, options))
  THEN Some(this.queryMap[QueryId(modelClass, options)])
  ELSE None

(***************************************************************************)
(* Repo.upsertQuery.                                                       *)
(***************************************************************************)
Min(a, b) == IF a < b THEN a ELSE b

\* models.length = n: truncates, or extends with holes
SetLength(models, n) == [i \in 1..n |-> IF i <= Len(models) THEN models[i] ELSE 0]

\* models.splice(start, deleteCount, ...items) for start, deleteCount >= 0
Splice(models, start, deleteCount, items) ==
  SubSeq(models, 1, Min(start, Len(models))) \o items \o
  SubSeq(models, Min(start, Len(models))
                   + Min(deleteCount, Len(models) - Min(start, Len(models))) + 1,
         Len(models))

\* the placement of a page without models.length = paging.count: the
\* variant of PlacePage that C10 is checked against
PlacePageUnsized(models, page, paging, loadedModels) ==
  Splice(models, page * paging.pageSize, Len(loadedModels), loadedModels)

\* models = (query.models.slice() or []); models.length = paging.count;
\* models.splice(page * paging.pageSize, loadedModels.length, ...loadedModels)
PlacePage(models, page, paging, loadedModels) ==
  Splice(SetLength(models, paging.count), page * paging.pageSize,
         Len(loadedModels), loadedModels)

\* queryIndex[model.key] = queryIndex[model.key] || {};
\* queryIndex[model.key][queryId] = true
IndexQueryAdd(c, model, queryId) ==
  [c EXCEPT !.bkts = BucketAdd(c.bkts, c.queryIndex,
                               ModelKey(model.cls, model.record.id), queryId).bkts,
            !.queryIndex = BucketAdd(c.bkts, c.queryIndex,
                                     ModelKey(model.cls, model.record.id), queryId).index]

\* for (const model of loadedModels) queryIndex[model.key][queryId] = true,
\* on the shallow copy of repo.queryIndex
RECURSIVE IndexQuery(_, _, _)
IndexQuery(c, loadedModels, queryId) ==
  IF loadedModels = <<>> THEN c
  ELSE IndexQuery(IndexQueryAdd(c, c.models[Head(loadedModels)], queryId),
                  Tail(loadedModels), queryId)

\* records.map(r => repo.getModel(modelClass, r.id)!)
LoadedModels(repo1, modelClass, records) ==
  [i \in 1..Len(records) |-> getModel(repo1, modelClass, records[i].id)]

\* the models of the new Query
NewModels(loadedModels, page, paging) ==
  IF loadedModels = None THEN <<>>
  ELSE IF paging # None THEN PlacePage(<<>>, page, paging[1], loadedModels[1])
  ELSE loadedModels[1]

\* the models given to query.update: undefined without records
UpdatedModels(models, loadedModels, page, paging) ==
  IF loadedModels = None THEN None
  ELSE IF paging # None THEN Some(PlacePage(models, page, paging[1], loadedModels[1]))
  ELSE loadedModels

\* the Query stored under queryId: a new one, or the update of the one there
NextQuery(queryMap, queryId, modelClass, options, loadedModels, state, page, paging, error) ==
  IF ~Has(queryMap, queryId)
  THEN Query_new(modelClass, state, options, error,
                 IF paging = None THEN None ELSE Some(paging[1].pageSize),
                 NewModels(loadedModels, page, paging),
                 IF state = "getting" THEN {page} ELSE {})
  ELSE Query_update(queryMap[queryId], state,
                    UpdatedModels(queryMap[queryId].models, loadedModels, page, paging),
                    Some(IF state = "getting" THEN queryMap[queryId].pendingPages \cup {page}
                         ELSE queryMap[queryId].pendingPages \ {page}),
                    error)

\* the part of upsertQuery after the records are ingested, over the
\* snapshot c that ingestion gave; loadedModels is None without records
StoreQuery(c, queryId, modelClass, options, loadedModels, state, page, paging, error) ==
  IndexQuery([c EXCEPT !.queryMap =
                Put(@, queryId,
                    NextQuery(c.queryMap, queryId, modelClass, options, loadedModels,
                              state, page, paging, error))],
             IF loadedModels = None THEN <<>> ELSE loadedModels[1], queryId)

\* a throw inside an operation leaves the caller with the receiver
Rethrow(r, this) == IF r.err # "" THEN [r EXCEPT !.repo = this] ELSE r

\* the operation F applied to what the operation before it returned, unless
\* that one has thrown
AndThen(r, F(_)) == IF r.err # "" THEN r ELSE F(r)

\* repo.upsertQuery(modelClass, options, {records, state, page, paging, error});
\* records and paging are None or Some(...)
upsertQuery(h, this, modelClass, options, records, state, page, paging, error) ==
  Rethrow(
    AndThen(IF records = None THEN [heap |-> h, repo |-> this, err |-> ""]
            ELSE upsert(h, this, modelClass, records[1], "loaded", EmptyMap),
            LAMBDA up :
              Result(StoreQuery(Context(up.heap, up.repo), QueryId(modelClass, options),
                                modelClass, options,
                                IF records = None THEN None
                                ELSE Some(LoadedModels(up.repo, modelClass, records[1])),
                                state, page, paging, error),
                     this)),
    this)

(***************************************************************************)
(* Repo.expunge and Repo.expungeQuery.                                     *)
(***************************************************************************)
\* relatedModel.relations[relationName].filter(m => m.id !== id).map(m => m.id)
RemainingIds(h, slot, id) ==
  [i \in 1..Len(SelectSeq(slot, LAMBDA m : h.models[m].record.id # id)) |->
     Id(h.models[SelectSeq(slot, LAMBDA m : h.models[m].record.id # id)[i]].record.id)]

\* the patch expunge ingests for the entity relatedModel: the relation
\* without the expunged id, or null
Patch(h, relatedModel, relationName, id) ==
  Merge([id |-> relatedModel.record.id],
        [x \in {relationName} |->
           IF Relations(relatedModel.cls)[relationName].cardinality = "many"
           THEN Arr(RemainingIds(h, h.robjs[relatedModel.relations][relationName], id))
           ELSE Null])

\* reading m.id of an undefined entry of a to-many slot
ReadsUndefined(h, relatedModel, relationName) ==
  /\ Relations(relatedModel.cls)[relationName].cardinality = "many"
  /\ \E i \in DOMAIN h.robjs[relatedModel.relations][relationName] :
       h.robjs[relatedModel.relations][relationName][i] = 0

\* one pass of the first loop of expunge; r is [heap, repo, err]
UnrelateOne(r, relatedModelKey, relationName, id) ==
  IF ~Has(r.repo.modelMap, relatedModelKey) THEN [r EXCEPT !.err = "TypeError"]
  ELSE IF ReadsUndefined(r.heap, r.heap.models[r.repo.modelMap[relatedModelKey]], relationName)
  THEN [r EXCEPT !.err = "TypeError"]
  ELSE upsert(r.heap, r.repo, relatedModelKey[1],
              <<Patch(r.heap, r.heap.models[r.repo.modelMap[relatedModelKey]],
                      relationName, id)>>,
              "loaded", EmptyMap)

\* the first loop of expunge, over the keys that relationIndex[modelKey] had
\* when the loop began; a key deleted from that object by the time its turn
\* comes is not visited
RECURSIVE Unrelate(_, _, _, _)
Unrelate(r, bucket, keys, id) ==
  IF keys = <<>> \/ r.err # "" THEN r
  ELSE Unrelate(IF Head(keys) \notin Range(r.heap.bkts[bucket]) THEN r
                ELSE UnrelateOne(r, OwnerKey(Head(keys)), Head(keys)[3], id),
                bucket, Tail(keys), id)

\* query.models.findIndex(m => m?.id === id), from 1; 0 if there is none
FindIndex(h, models, id) ==
  IF \E i \in DOMAIN models : models[i] > 0 /\ h.models[models[i]].record.id = id
  THEN CHOOSE i \in DOMAIN models :
         /\ models[i] > 0 /\ h.models[models[i]].record.id = id
         /\ \A j \in 1..(i - 1) : ~(models[j] > 0 /\ h.models[models[j]].record.id = id)
  ELSE 0

\* if (idx >= 0) { models.splice(idx, 1); query = query.update({models}) }
SpliceAt(query, idx) ==
  IF idx = 0 THEN query
  ELSE Query_update(query, Undefined, Some(Splice(query.models, idx - 1, 1, <<>>)),
                    None, Undefined)

\* for (const queryKey in queryIndex[modelKey]) of expunge
RECURSIVE SpliceQueries(_, _, _, _)
SpliceQueries(h, queryMap, queryKeys, id) ==
  IF queryKeys = <<>> THEN queryMap
  ELSE SpliceQueries(h,
                     IF ~Has(queryMap, Head(queryKeys)) THEN queryMap
                     ELSE Put(queryMap, Head(queryKeys),
                              SpliceAt(queryMap[Head(queryKeys)],
                                       FindIndex(h, queryMap[Head(queryKeys)].models, id))),
                     Tail(queryKeys), id)

RECURSIVE DelAll(_, _)
DelAll(f, ks) == IF ks = {} THEN f ELSE DelAll(Del(f, CHOOSE k \in ks : TRUE), ks \ {CHOOSE k \in ks : TRUE})

\* the part of expunge after the first loop, over what that loop returned
Remove(r, modelKey, names, id) ==
  [heap |-> r.heap,
   repo |-> [modelMap |-> Del(r.repo.modelMap, modelKey),
             relationMap |-> DelAll(r.repo.relationMap,
                                    {RelationKey(modelKey, n) : n \in names}),
             relationIndex |-> r.repo.relationIndex,
             queryMap |-> SpliceQueries(r.heap, r.repo.queryMap,
                                        Bucket(r.heap, r.repo.queryIndex, modelKey), id),
             queryIndex |-> Del(r.repo.queryIndex, modelKey)],
   err |-> ""]

\* repo.expunge(modelClass, id)
expunge(h, this, modelClass, id) ==
  IF ~Has(this.modelMap, ModelKey(modelClass, id)) THEN [heap |-> h, repo |-> this, err |-> ""]
  ELSE Rethrow(
         AndThen(IF Has(this.relationIndex, ModelKey(modelClass, id))
                 THEN Unrelate([heap |-> h, repo |-> this, err |-> ""],
                               this.relationIndex[ModelKey(modelClass, id)],
                               h.bkts[this.relationIndex[ModelKey(modelClass, id)]], id)
                 ELSE [heap |-> h, repo |-> this, err |-> ""],
                 LAMBDA r : Remove(r, ModelKey(modelClass, id),
                                   DOMAIN h.robjs[h.models[this.modelMap[ModelKey(modelClass, id)]].relations],
                                   id)),
         this)

\* for (const model of query.models) repo = repo.expunge(modelClass, model.id)
RECURSIVE ExpungeAll(_, _, _)
ExpungeAll(r, modelClass, models) ==
  IF models = <<>> \/ r.err # "" THEN r
  ELSE ExpungeAll(IF Head(models) = 0 THEN r
                  ELSE expunge(r.heap, r.repo, modelClass,
                               r.heap.models[Head(models)].record.id),
                  modelClass, Tail(models))

\* repo.expungeQuery(modelClass, options)
expungeQuery(h, this, modelClass, options) ==
  Rethrow(
    ExpungeAll([heap |-> h,
                repo |-> [this EXCEPT !.queryMap = Del(@, QueryId(modelClass, options))],
                err |-> ""],
               modelClass,
               IF getQuery(this, modelClass, options) = None THEN <<>>
               ELSE getQuery(this, modelClass, options)[1].models),
    this)

(***************************************************************************)
(* Model.set and the caller's drafts.                                      *)
(***************************************************************************)
\* new modelClass({state, record, errors, validate: false})
Model_newUnvalidated(c, cls, state, record, errors) ==
  [c EXCEPT !.robjs = Append(@, defaultRelations(cls)),
            !.models = Append(@, [cls |-> cls, state |-> state,
                                  record |-> Merge(defaultRecord(cls), record),
                                  errors |-> errors, dirty |-> {},
                                  dirtyRelations |-> {},
                                  relations |-> Len(c.robjs) + 1])]

\* a set that marks nothing dirty: the variant of Model_set that C26 is
\* checked against
Model_setUnmarked(c, m, record) ==
  [c EXCEPT !.models = Append(@, [c.models[m] EXCEPT !.record = Merge(@, record)])]

\* a set that validates whatever it merges: the variant of Model_set that
\* C27 is checked against
Model_setValidating(c, m, record) ==
  IF ~Validates(c.models[m].cls, Merge(c.models[m].record, record))
  THEN Throw(c, "ValidationError")
  ELSE [c EXCEPT !.models =
          Append(@, [c.models[m] EXCEPT !.record = Merge(@, record),
                                        !.dirty = @ \cup DOMAIN record])]

\* model.set(record): the attributes are merged, their names marked dirty;
\* validate is Object.keys(dirty).length === 0
Model_set(c, m, record) ==
  IF c.models[m].dirty \cup DOMAIN record = {}
     /\ ~Validates(c.models[m].cls, Merge(c.models[m].record, record))
  THEN Throw(c, "ValidationError")
  ELSE [c EXCEPT !.models =
          Append(@, [c.models[m] EXCEPT !.record = Merge(@, record),
                                        !.dirty = @ \cup DOMAIN record])]

\* model.setRelated(relation, value): a new relations object with the slot
\* replaced, the relation marked dirty; update is given no record, and
\* validate is undefined !== this.record && Object.keys(dirty).length === 0
Model_setRelated(c, m, relation, value) ==
  IF c.models[m].dirty = {} /\ ~Validates(c.models[m].cls, c.models[m].record)
  THEN Throw(c, "ValidationError")
  ELSE [c EXCEPT !.robjs = Append(@, [c.robjs[c.models[m].relations] EXCEPT ![relation] = value]),
                 !.models =
                   Append(@, [c.models[m] EXCEPT !.relations = Len(c.robjs) + 1,
                                                 !.dirtyRelations = @ \cup {relation}])]

\* get isDirty()
isDirty(h, m) == h.models[m].dirty # {} \/ h.models[m].dirtyRelations # {}

(***************************************************************************)
(* The Mapper of each entity type.  Post configures fetch, create, update  *)
(* and delete, Author configures query, Comment configures nothing: the    *)
(* other methods are NullMapper's, which throw when called.  What a        *)
(* configured method does is the Mapper's choice: it resolves, or rejects  *)
(* with a MapperError or with another Error.                               *)
(***************************************************************************)
Configured(cls, method) ==
  \/ cls = "Post" /\ method \in {"fetch", "create", "update", "delete"}
  \/ cls = "Author" /\ method = "query"

MapperError(errors) == [t |-> "MapperError", errors |-> errors]

Error(message) == [t |-> "Error", message |-> message]

Resolve_(value) == [t |-> "resolve", value |-> value]

Reject(error) == [t |-> "reject", error |-> error]

Throws == [t |-> "throw"]

\* error instanceof Error ? error.message : String(error)
Message(error) == IF error.t = "MapperError" THEN "MapperError" ELSE error.message

\* err instanceof MapperError ? err.errors : {base: err.message}
ErrorsOf(err) == IF err.t = "MapperError" THEN err.errors ELSE [base |-> err.message]

(***************************************************************************)
(* Repo.fetch, query, create, update, delete: the snapshot each returns.  *)
(* The action each returns is kept as a record of what its closure holds.  *)
(***************************************************************************)
\* the snapshot of fetch, update and delete:
\* this.upsert(modelClass, {id}, {state})
stage(h, this, modelClass, id, state) ==
  upsert(h, this, modelClass, <<[id |-> id]>>, state, EmptyMap)

\* repo.fetch(modelClass, id)
fetch(h, this, modelClass, id) == stage(h, this, modelClass, id, "fetching")

\* repo.query(modelClass, options, paging): page is paging?.page, and
\* upsertQuery's default for an undefined page is 0
query(h, this, modelClass, options, paging) ==
  upsertQuery(h, this, modelClass, options, None, "getting",
              IF paging = None THEN 0 ELSE paging[1].page, None, Undefined)

\* repo.create(model): return [this, action]
create(h, this, model) == [heap |-> h, repo |-> this, err |-> ""]

\* repo.update(model), model being an address of the heap
update(h, this, model) ==
  stage(h, this, h.models[model].cls, h.models[model].record.id, "updating")

\* repo.delete(model)
delete(h, this, model) ==
  stage(h, this, h.models[model].cls, h.models[model].record.id, "deleting")

(***************************************************************************)
(* Invoking an action: the Mapper method is called and its promise turned  *)
(* into a MapperResult.  An invocation returns the heap it leaves, out     *)
(* (None, or Some result) and err, what it threw or rejected with.         *)
(***************************************************************************)
FetchAction(modelClass, id) == [kind |-> "fetch", modelClass |-> modelClass, id |-> id]

QueryAction(modelClass, options, paging) ==
  [kind |-> "query", modelClass |-> modelClass, options |-> options, paging |-> paging]

ModelAction(kind, h, model) ==
  [kind |-> kind, modelClass |-> h.models[model].cls, model |-> model]

\* the result of a fulfilled promise
Success(h, action, value) ==
  CASE action.kind = "fetch" ->
         [type |-> "fetch:success", modelClass |-> action.modelClass, record |-> value]
    [] action.kind = "query" ->
         [type |-> "query:success", modelClass |-> action.modelClass,
          options |-> action.options, records |-> value.records, paging |-> value.paging]
    [] action.kind = "create" ->
         [type |-> "create:success", modelClass |-> action.modelClass, record |-> value]
    [] action.kind = "update" ->
         [type |-> "update:success", modelClass |-> action.modelClass, record |-> value]
    [] action.kind = "delete" ->
         [type |-> "delete:success", modelClass |-> action.modelClass,
          id |-> h.models[action.model].record.id]

\* the result of a rejected promise of fetch and of query
Failure(action, error) ==
  IF action.kind = "fetch"
  THEN [type |-> "fetch:error", modelClass |-> action.modelClass, id |-> action.id,
        error |-> Message(error)]
  ELSE [type |-> "query:error", modelClass |-> action.modelClass,
        options |-> action.options, error |-> Message(error)]

\* the result of a rejected promise of create, update and delete, over the
\* context that model.update({errors}) leaves
ModelFailure(c, action) ==
  [heap |-> HeapOf(c),
   out |-> IF c.err # "" THEN None
           ELSE Some([type |-> action.kind \o ":error", model |-> Newest(c)]),
   err |-> c.err]

\* model.update({errors}) in the rejection handler: no record is given
Rejected(h, action, err) ==
  ModelFailure(Model_update(Context(h, EmptyRepo), action.model,
                            h.models[action.model].state,
                            h.models[action.model].record, ErrorsOf(err)),
               action)

\* action(), the Mapper method responding with response
invoke(h, action, response) ==
  IF response.t = "throw" THEN [heap |-> h, out |-> None, err |-> "Error: Mapper not defined"]
  ELSE IF response.t = "resolve"
  THEN [heap |-> h, out |-> Some(Success(h, action, response.value)), err |-> ""]
  ELSE IF action.kind \in {"fetch", "query"}
  THEN [heap |-> h, out |-> Some(Failure(action, response.error)), err |-> ""]
  ELSE Rejected(h, action, response.error)

(***************************************************************************)
(* Repo.processMapperResult.                                               *)
(***************************************************************************)
\* the results reduced by this.upsert(...)
Upserted(result) ==
  result.type \in {"fetch:success", "fetch:error", "create:success", "update:success",
                   "update:error", "delete:error"}

\* the class, the record and the errors of that upsert
UpsertClass(h, result) ==
  IF result.type \in {"update:error", "delete:error"} THEN h.models[result.model].cls
  ELSE result.modelClass

UpsertRecord(h, result) ==
  IF result.type \in {"update:error", "delete:error"} THEN h.models[result.model].record
  ELSE IF result.type = "fetch:error" THEN [id |-> result.id]
  ELSE result.record

UpsertErrors(h, result) ==
  IF result.type \in {"update:error", "delete:error"} THEN h.models[result.model].errors
  ELSE IF result.type = "fetch:error" THEN [base |-> result.error]
  ELSE EmptyMap

\* the upsertQuery of query:success and of query:error
ReduceQuery(h, this, result) ==
  IF result.type = "query:success"
  THEN upsertQuery(h, this, result.modelClass, result.options, Some(result.records),
                   "loaded",
                   IF result.paging = None THEN 0 ELSE result.paging[1].page,
                   IF result.paging = None THEN None
                   ELSE Some([pageSize |-> result.paging[1].pageSize,
                              count |-> result.paging[1].count]),
                   Undefined)
  ELSE upsertQuery(h, this, result.modelClass, result.options, None, "error", 0, None,
                   result.error)

\* a reduction that stores the entity an error result carries as it is
processMapperResultAsIs(h, this, result) ==
  IF result.type \in {"update:error", "delete:error"}
  THEN [heap |-> h,
        repo |-> [this EXCEPT !.modelMap =
                    Put(@, ModelKey(h.models[result.model].cls,
                                    h.models[result.model].record.id), result.model)],
        err |-> ""]
  ELSE IF Upserted(result)
  THEN upsert(h, this, UpsertClass(h, result), <<UpsertRecord(h, result)>>, "loaded",
              UpsertErrors(h, result))
  ELSE IF result.type \in {"query:success", "query:error"} THEN ReduceQuery(h, this, result)
  ELSE IF result.type = "delete:success" THEN expunge(h, this, result.modelClass, result.id)
  ELSE [heap |-> h, repo |-> this, err |-> ""]

\* repo.processMapperResult(result)
processMapperResult(h, this, result) ==
  IF Upserted(result)
  THEN upsert(h, this, UpsertClass(h, result), <<UpsertRecord(h, result)>>, "loaded",
              UpsertErrors(h, result))
  ELSE IF result.type \in {"query:success", "query:error"} THEN ReduceQuery(h, this, result)
  ELSE IF result.type = "delete:success" THEN expunge(h, this, result.modelClass, result.id)
  ELSE [heap |-> h, repo |-> this, err |-> ""]

(***************************************************************************)
(* The state machine: a caller that holds the current snapshot (repo) and  *)
(* an older one (held), and applies the store's operations to the current  *)
(* one.  An operation that throws leaves the caller with the snapshot it   *)
(* called it on -- and the heap as the operation left it.  prev is the     *)
(* snapshot the last operation was applied to and last describes that      *)
(* operation.                                                              *)
(***************************************************************************)
MaxOps == 3

PostA == [id |-> 1, title |-> "a"]
PostB == [id |-> 2, title |-> "b"]
Homer == [id |-> 10, firstName |-> "Homer", lastName |-> "Simpson"]
Marge == [id |-> 11, firstName |-> "Marge", lastName |-> "Simpson"]

\* the records given to upsert: plain, with bare identifiers, with inlined
\* records, with null and with empty relation values, nested, and arrays
\* of one and of two records; then the malformed ones: no id, a to-many
\* value that is not an array, to-one values and to-many elements that are
\* neither an id, a record with an id, nor null
UpsertInputs ==
  << [klass |-> "Post", records |-> <<PostA>>],
    [klass |-> "Post", records |-> <<[id |-> 1, author |-> Id(10)]>>],
    [klass |-> "Post", records |-> <<[id |-> 1, title |-> "c", author |-> Rec(Marge)]>>],
    [klass |-> "Post", records |-> <<[id |-> 1, author |-> Null]>>],
    [klass |-> "Post", records |-> <<[id |-> 2, author |-> Id(10), comments |-> Arr(<<Id(1)>>)]>>],
    [klass |-> "Post", records |->
       <<[id |-> 1, comments |->
            Arr(<<Id(1), Rec([id |-> 2, text |-> "second", author |-> Id(10)])>>)]>>],
    [klass |-> "Post", records |-> <<[id |-> 1, comments |-> Arr(<<>>)]>>],
    [klass |-> "Post", records |->
       <<[id |-> 1, author |-> Rec([id |-> 10, posts |-> Arr(<<Id(2)>>)])]>>],
    [klass |-> "Post", records |-> <<PostA, PostB>>],
    [klass |-> "Author", records |-> <<[id |-> 10, posts |-> Arr(<<Id(1), Id(2)>>)]>>],
    [klass |-> "Author", records |-> <<[id |-> 10, posts |-> Arr(<<Id(2)>>)]>>],
    [klass |-> "Author", records |-> <<[id |-> 10, firstName |-> "Homer J."]>>],
    [klass |-> "Comment", records |->
       <<[id |-> 1, text |-> "first", post |-> Id(1), author |-> Id(11)]>>],
    [klass |-> "Comment", records |->
       <<[id |-> 1,
          author |-> Rec([id |-> 11, posts |-> Arr(<<Id(1)>>)]),
          post |-> Rec([id |-> 2, author |-> Rec([id |-> 10, posts |-> Arr(<<Id(2)>>)])])]>>],
    [klass |-> "Post", records |-> <<[title |-> "a"]>>],
    [klass |-> "Post", records |-> <<[id |-> 1, comments |-> Id(1)]>>],
    [klass |-> "Post", records |-> <<[id |-> 1, author |-> Bad]>>],
    [klass |-> "Post", records |-> <<[id |-> 1, author |-> Rec([firstName |-> "Homer"])]>>],
    [klass |-> "Post", records |-> <<[id |-> 1, comments |-> Arr(<<Id(1), Bad>>)]>>],
    [klass |-> "Post", records |-> <<[id |-> Abc, title |-> "a"]>>],
    [klass |-> "Post", records |-> <<[id |-> 1, author |-> Id(Abc)]>>],
    [klass |-> "Post", records |->
       <<[id |-> 1, author |-> Rec([id |-> Abc, firstName |-> "Homer"])]>>],
    [klass |-> "Author", records |->
       <<[id |-> 10, posts |-> Arr(<<Rec([id |-> 1, comments |-> Arr(<<Rec([text |-> "x"])>>)])>>)]>>] >>

NoOptions == <<>>
ByX == << <<"x", 1>> >>

\* {a: 1, b: 2} and {b: 2, a: 1}
ByAB == << <<"a", 1>>, <<"b", 2>> >>
ByBA == << <<"b", 2>>, <<"a", 1>> >>

\* the arguments given to upsertQuery: unpaged, paged, a page that runs past
\* the count, a pending page without records, a page listing a record twice
QueryInputs ==
  << [klass |-> "Post", options |-> NoOptions, records |-> Some(<<PostA, PostB>>),
     state |-> "loaded", page |-> 0, paging |-> None, error |-> Undefined],
    [klass |-> "Post", options |-> ByX,
     records |-> Some(<<[id |-> 1, title |-> "x", author |-> Rec(Homer)]>>),
     state |-> "loaded", page |-> 0, paging |-> None, error |-> Undefined],
    [klass |-> "Author", options |-> NoOptions, records |-> Some(<<Homer>>),
     state |-> "loaded", page |-> 0,
     paging |-> Some([pageSize |-> 1, count |-> 3]), error |-> Undefined],
    [klass |-> "Author", options |-> NoOptions, records |-> Some(<<Marge>>),
     state |-> "loaded", page |-> 1,
     paging |-> Some([pageSize |-> 1, count |-> 3]), error |-> Undefined],
    [klass |-> "Author", options |-> NoOptions, records |-> Some(<<Homer, Marge>>),
     state |-> "loaded", page |-> 1,
     paging |-> Some([pageSize |-> 2, count |-> 3]), error |-> Undefined],
    [klass |-> "Post", options |-> NoOptions, records |-> None,
     state |-> "getting", page |-> 0, paging |-> None, error |-> Undefined],
    [klass |-> "Author", options |-> NoOptions, records |-> Some(<<Homer, Homer>>),
     state |-> "loaded", page |-> 0,
     paging |-> Some([pageSize |-> 2, count |-> 3]), error |-> Undefined] >>

\* the entities given to expunge, the queries given to expungeQuery
ExpungeInputs ==
  << [klass |-> "Post", id |-> 1], [klass |-> "Post", id |-> 2],
    [klass |-> "Author", id |-> 10], [klass |-> "Author", id |-> 11],
    [klass |-> "Comment", id |-> 1] >>

ExpungeQueryInputs ==
  << [klass |-> "Post", options |-> NoOptions], [klass |-> "Post", options |-> ByX],
    [klass |-> "Author", options |-> NoOptions] >>

Init ==
  /\ heap = EmptyHeap
  /\ repo = EmptyRepo
  /\ held = EmptyRepo
  /\ prev = EmptyRepo
  /\ last = [op |-> "new"]
  /\ nops = 0
  /\ pending = {}
  /\ outcomes = {}
  /\ nreq = 0

\* the caller's side of every operation
Apply(result, op) ==
  /\ nops < MaxOps
  /\ nops' = nops + 1
  /\ LET r == result
     IN /\ heap' = r.heap
        /\ repo' = r.repo
        /\ last' = [op EXCEPT !.err = r.err]
  /\ prev' = repo
  /\ UNCHANGED <<held, pending, outcomes, nreq>>

Upsert ==
  \E i \in DOMAIN UpsertInputs :
    LET in == UpsertInputs[i]
    IN Apply(upsert(heap, repo, in.klass, in.records, "loaded", EmptyMap),
             [op |-> "upsert", i |-> i, in |-> in, err |-> ""])

UpsertQuery ==
  \E i \in DOMAIN QueryInputs :
    LET in == QueryInputs[i]
    IN Apply(upsertQuery(heap, repo, in.klass, in.options, in.records, in.state, in.page,
                         in.paging, in.error),
             [op |-> "upsertQuery", i |-> i, in |-> in, err |-> ""])

Expunge ==
  \E i \in DOMAIN ExpungeInputs :
    LET in == ExpungeInputs[i]
    IN Apply(expunge(heap, repo, in.klass, in.id),
             [op |-> "expunge", i |-> i, in |-> in, err |-> ""])

ExpungeQuery ==
  \E i \in DOMAIN ExpungeQueryInputs :
    LET in == ExpungeQueryInputs[i]
    IN Apply(expungeQuery(heap, repo, in.klass, in.options),
             [op |-> "expungeQuery", i |-> i, in |-> in, err |-> ""])

\* the caller keeps the current snapshot
Hold ==
  /\ held # repo
  /\ held' = repo
  /\ UNCHANGED <<heap, repo, prev, last, nops, pending, outcomes, nreq>>

\* the caller goes back to the snapshot it kept, to derive another successor
Restore ==
  /\ held # repo
  /\ repo' = held
  /\ prev' = repo
  /\ last' = [op |-> "restore", err |-> ""]
  /\ UNCHANGED <<heap, held, nops, pending, outcomes, nreq>>

Next == Upsert \/ UpsertQuery \/ Expunge \/ ExpungeQuery \/ Hold \/ Restore

Spec == Init /\ [][Next]_vars

(***************************************************************************)
(* The state machine of the asynchronous layer: the caller stages          *)
(* requests (fetch, query, create, update, delete), invokes the actions    *)
(* they return in any order, and reduces the results in any order, with    *)
(* synchronous operations in between.  pending holds the actions not yet   *)
(* invoked, outcomes the results not yet reduced, each with the action     *)
(* that gave it.                                                           *)
(***************************************************************************)
MaxRequests == 2
MaxSyncs == 2

\* the id the Post Mapper gives to a created record
NextId == 3

\* the records the Author Mapper serves
Authors == <<Homer, Marge>>

\* the synchronous operations of this machine
SyncInputs ==
  << [op |-> "upsert", klass |-> "Post",
      records |-> <<[id |-> 1, title |-> "a", author |-> Rec(Homer)]>>],
     [op |-> "upsertQuery", klass |-> "Post", options |-> NoOptions,
      records |-> <<PostA, PostA>>],
     [op |-> "expunge", klass |-> "Author", id |-> 10],
     [op |-> "expungeQuery", klass |-> "Author", options |-> NoOptions] >>

FetchInputs == {[klass |-> "Post", id |-> 1], [klass |-> "Comment", id |-> 1]}

\* paging is None or Some({page, pageSize})
QueryRequests ==
  {[klass |-> "Author", options |-> NoOptions, paging |-> Some([page |-> 0, pageSize |-> 1])],
   [klass |-> "Author", options |-> NoOptions, paging |-> Some([page |-> 1, pageSize |-> 1])],
   [klass |-> "Author", options |-> NoOptions, paging |-> None],
   [klass |-> "Author", options |-> ByX, paging |-> None],
   [klass |-> "Author", options |-> ByAB, paging |-> None],
   [klass |-> "Author", options |-> ByBA, paging |-> None],
   [klass |-> "Post", options |-> NoOptions, paging |-> None]}

\* new Post({record: {title: 'My Post'}}) and
\* new Post({record: {title: ''}, validate: false})
Drafts ==
  {[klass |-> "Post", record |-> [title |-> "My Post"], validate |-> TRUE],
   [klass |-> "Post", record |-> [title |-> ""], validate |-> FALSE]}

\* the attributes the caller sets on a stored entity before update
Edits == {[title |-> "b"], [title |-> "c"], [title |-> ""]}

\* the stored entities given to update and delete
Targets == {[klass |-> "Post", id |-> 1]}

\* AuthorMapper.query(options, paging)
AuthorPage(paging) ==
  IF paging = None THEN [records |-> Authors, paging |-> None]
  ELSE [records |-> SubSeq(Authors, paging[1].page * paging[1].pageSize + 1,
                           Min((paging[1].page + 1) * paging[1].pageSize, Len(Authors))),
        paging |-> Some([page |-> paging[1].page, pageSize |-> paging[1].pageSize,
                         count |-> Len(Authors)])]

\* what the Mapper method of an action may do: a method that is not
\* configured throws; create and update resolve with the record they were
\* given when it satisfies the schema, create with its new id and with or
\* without the id of the author the backend recorded
Responses(h, action) ==
  IF ~Configured(action.modelClass, action.kind) THEN {Throws}
  ELSE CASE action.kind = "fetch" ->
              {Resolve_([id |-> action.id, title |-> "First Post!", author |-> Rec(Homer)]),
               Reject(Error("boom"))}
         [] action.kind = "query" ->
              {Resolve_(AuthorPage(action.paging)), Reject(Error("boom")), Reject(Error(""))}
         [] action.kind = "create" ->
              (IF Validates(action.modelClass, h.models[action.model].record)
               THEN {Resolve_(Merge(h.models[action.model].record, [id |-> NextId])),
                     Resolve_(Merge(h.models[action.model].record,
                                    [id |-> NextId, author |-> Id(10)]))}
               ELSE {})
              \cup {Reject(MapperError([title |-> "invalid title"])), Reject(Error("boom"))}
         [] action.kind = "update" ->
              (IF Validates(action.modelClass, h.models[action.model].record)
               THEN {Resolve_(h.models[action.model].record)}
               ELSE {})
              \cup {Reject(MapperError([title |-> "invalid title"])), Reject(Error("boom"))}
         [] action.kind = "delete" ->
              {Resolve_([id |-> h.models[action.model].record.id]),
               Reject(MapperError([base |-> "delete failed"]))}

InitAsync == Init

\* the synchronous operation in
sync(h, this, in) ==
  IF in.op = "upsert" THEN upsert(h, this, in.klass, in.records, "loaded", EmptyMap)
  ELSE IF in.op = "upsertQuery"
  THEN upsertQuery(h, this, in.klass, in.options, Some(in.records), "loaded", 0, None,
                   Undefined)
  ELSE IF in.op = "expunge" THEN expunge(h, this, in.klass, in.id)
  ELSE expungeQuery(h, this, in.klass, in.options)

\* the caller's side of a call that returns a snapshot
Call(r, op, in) ==
  /\ heap' = r.heap
  /\ repo' = r.repo
  /\ prev' = repo
  /\ last' = [op |-> op, in |-> in, err |-> r.err]
  /\ UNCHANGED held

Sync ==
  /\ nops < MaxSyncs
  /\ nops' = nops + 1
  /\ \E i \in DOMAIN SyncInputs :
       Call(sync(heap, repo, SyncInputs[i]), SyncInputs[i].op, SyncInputs[i])
  /\ UNCHANGED <<pending, outcomes, nreq>>

\* the caller's side of a request: [r, a] = repo.fetch(...) and the like;
\* a request that throws returns no action
Request(r, op, action) ==
  /\ nreq < MaxRequests
  /\ nreq' = nreq + 1
  /\ Call(r, op, action)
  /\ pending' = IF r.err = "" THEN pending \cup {action} ELSE pending
  /\ UNCHANGED <<outcomes, nops>>

Fetch ==
  \E in \in FetchInputs :
    Request(fetch(heap, repo, in.klass, in.id), "fetch", FetchAction(in.klass, in.id))

Query ==
  \E in \in QueryRequests :
    Request(query(heap, repo, in.klass, in.options, in.paging), "query",
            QueryAction(in.klass, in.options, in.paging))

\* the heap after the caller has built the draft d
Drafted(h, d) ==
  HeapOf(IF d.validate THEN Model_new(Context(h, EmptyRepo), d.klass, "new", d.record, EmptyMap)
         ELSE Model_newUnvalidated(Context(h, EmptyRepo), d.klass, "new", d.record, EmptyMap))

CreateWith(h) == Request(create(h, repo, Len(h.models)), "create",
                         ModelAction("create", h, Len(h.models)))

Create == \E d \in Drafts : CreateWith(Drafted(heap, d))

\* the heap after the caller's model.set(edit) on the stored entity
Edited(h, t, edit) == HeapOf(Model_set(Context(h, EmptyRepo), getModel(repo, t.klass, t.id), edit))

UpdateWith(h) == Request(update(h, repo, Len(h.models)), "update",
                         ModelAction("update", h, Len(h.models)))

Update ==
  \E t \in Targets, edit \in Edits :
    /\ getModel(repo, t.klass, t.id) > 0
    /\ UpdateWith(Edited(heap, t, edit))

Delete ==
  \E t \in Targets :
    /\ getModel(repo, t.klass, t.id) > 0
    /\ Request(delete(heap, repo, getModel(repo, t.klass, t.id)), "delete",
               ModelAction("delete", heap, getModel(repo, t.klass, t.id)))

\* the caller's side of invoking an action: result = await a()
Ran(r, action, response) ==
  /\ heap' = r.heap
  /\ pending' = pending \ {action}
  /\ outcomes' = IF r.out = None THEN outcomes
                 ELSE outcomes \cup {[action |-> action, result |-> r.out[1]]}
  /\ last' = [op |-> "run", in |-> action, response |-> response, out |-> r.out,
              err |-> r.err]
  /\ prev' = repo
  /\ UNCHANGED <<repo, held, nops, nreq>>

Run ==
  \E action \in pending :
    \E response \in Responses(heap, action) :
      Ran(invoke(heap, action, response), action, response)

\* repo = repo.processMapperResult(result)
Reduce ==
  \E o \in outcomes :
    /\ Call(processMapperResult(heap, repo, o.result), "reduce", o)
    /\ outcomes' = outcomes \ {o}
    /\ UNCHANGED <<pending, nops, nreq>>

NextAsync == Sync \/ Fetch \/ Query \/ Create \/ Update \/ Delete \/ Run \/ Reduce

SpecAsync == InitAsync /\ [][NextAsync]_vars

(***************************************************************************)
(* The state machine of Model: a caller that constructs entities and       *)
(* derives new ones from those it has with set and setRelated.  last       *)
(* describes the call: its receiver, its argument, what it threw, and the  *)
(* address of the instance it returned.                                    *)
(***************************************************************************)
MaxCalls == 3

\* new Post(), new Post({record: {title: 'My Post'}}),
\* new Post({record: {title: ''}, validate: false}), new Author()
Constructions ==
  {[klass |-> "Post", record |-> EmptyMap, validate |-> TRUE],
   [klass |-> "Post", record |-> [title |-> "My Post"], validate |-> TRUE],
   [klass |-> "Post", record |-> [title |-> ""], validate |-> FALSE],
   [klass |-> "Author", record |-> EmptyMap, validate |-> TRUE]}

\* the arguments of set
Patches == {EmptyMap, [title |-> "b"], [title |-> ""], [id |-> 7]}

InitModel == Init

\* the caller's side of a call on Model that leaves the context c
Returned(c, call) ==
  /\ nops < MaxCalls
  /\ nops' = nops + 1
  /\ heap' = HeapOf(c)
  /\ last' = [call EXCEPT !.err = c.err, !.out = IF c.err = "" THEN Newest(c) ELSE 0]
  /\ UNCHANGED <<repo, held, prev, pending, outcomes, nreq>>

Construct ==
  \E d \in Constructions :
    Returned(IF d.validate
             THEN Model_new(Context(heap, EmptyRepo), d.klass, "new", d.record, EmptyMap)
             ELSE Model_newUnvalidated(Context(heap, EmptyRepo), d.klass, "new", d.record,
                                       EmptyMap),
             [op |-> "new", in |-> d, err |-> "", out |-> 0])

Set ==
  \E m \in DOMAIN heap.models, patch \in Patches :
    /\ DOMAIN patch \subseteq Properties(heap.models[m].cls)
    /\ Returned(Model_set(Context(heap, EmptyRepo), m, patch),
                [op |-> "set", model |-> m, in |-> patch, err |-> "", out |-> 0])

SetRelated ==
  \E m \in DOMAIN heap.models, relation \in {"author", "post", "posts"} :
    /\ relation \in DOMAIN Relations(heap.models[m].cls)
    /\ Relations(heap.models[m].cls)[relation].cardinality = "one"
    /\ Returned(Model_setRelated(Context(heap, EmptyRepo), m, relation, -1),
                [op |-> "setRelated", model |-> m, in |-> relation, err |-> "", out |-> 0])

NextModel == Construct \/ Set \/ SetRelated

SpecModel == InitModel /\ [][NextModel]_vars

(***************************************************************************)
(* What a caller observes through a snapshot.                              *)
(***************************************************************************)
\* model.relations
Slots(h, m) == h.robjs[h.models[m].relations]

\* model.key
KeyOf(h, m) == ModelKey(h.models[m].cls, h.models[m].record.id)

\* the entries of one relation slot, a sequence for either cardinality
SlotEntries(h, m, name) ==
  IF Relations(h.models[m].cls)[name].cardinality = "many" THEN Slots(h, m)[name]
  ELSE IF Slots(h, m)[name] = -1 THEN <<>> ELSE <<Slots(h, m)[name]>>

\* the Model instances one instance refers to
SlotRefs(h, m) ==
  UNION {Range(SlotEntries(h, m, name)) \ {0} : name \in DOMAIN Slots(h, m)}

RECURSIVE Closure(_, _)
Closure(h, S) ==
  LET T == S \cup UNION {SlotRefs(h, m) : m \in S}
  IN IF T = S THEN S ELSE Closure(h, T)

\* the Model instances reachable from getModel and getQuery results
Reachable(h, r) ==
  Closure(h, Range(r.modelMap)
             \cup (UNION {Range(r.queryMap[q].models) : q \in DOMAIN r.queryMap} \ {0}))

\* everything observable through a snapshot: which instance getModel gives
\* for each key, each query, and, the fields of an instance being immutable,
\* the relation slots of every instance that can be reached
View(h, r) ==
  [modelMap |-> r.modelMap, queryMap |-> r.queryMap,
   relations |-> [m \in Reachable(h, r) |-> Slots(h, m)]]

\* a slot entry or query row by value: the key of the entity, or what else
\* the place holds
EntryValue(h, e) == IF e > 0 THEN KeyOf(h, e) ELSE IF e = 0 THEN <<"undefined">> ELSE <<"null">>

\* one entity by value: attributes, lifecycle state, errors, and the
\* targets of its relation slots in order
EntityValue(h, m) ==
  [record |-> h.models[m].record, state |-> h.models[m].state,
   errors |-> h.models[m].errors,
   relations |-> [name \in DOMAIN Slots(h, m) |->
                    [i \in DOMAIN SlotEntries(h, m, name) |->
                       EntryValue(h, SlotEntries(h, m, name)[i])]]]

Entities(h, r) == [k \in DOMAIN r.modelMap |-> EntityValue(h, r.modelMap[k])]

\* the step is an operation of the store (not Hold or Restore)
Operated == nops' = nops + 1

Succeeded(op) == last'.op = op /\ last'.err = "" /\ Operated

(***************************************************************************)
(* C1.  No store operation mutates the snapshot it is called on, nor an    *)
(* older snapshot the caller holds: what is observable through them is     *)
(* the same after the operation as before.                                 *)
(***************************************************************************)
C1_NoMutation ==
  [][Operated => /\ View(heap', repo) = View(heap, repo)
                 /\ View(heap', held) = View(heap, held)]_vars

(***************************************************************************)
(* The relation values an input mentions.                                  *)
(***************************************************************************)
\* the related values of one raw relation value that name an entity
RelatedItems(v) ==
  IF v.t = "arr" THEN SelectSeq(v.arr, Names)
  ELSE IF v.t \in {"id", "rec"} /\ Names(v) THEN <<v>> ELSE <<>>

ItemId(x) == IF x.t = "id" THEN x.id ELSE x.rec.id

\* what a record of class cls states about relations, in itself and in the
\* records inlined in it: one [src, name, dsts] per relation name present
RECURSIVE RecordStatements(_, _)
RecordStatements(cls, rec) ==
  UNION
    { LET items == RelatedItems(rec[name])
          target == Relations(cls)[name].modelClass
      IN {[src |-> ModelKey(cls, rec.id), name |-> name,
           dsts |-> {ModelKey(target, ItemId(items[i])) : i \in DOMAIN items}]}
         \cup
         UNION {IF items[i].t = "rec" THEN RecordStatements(target, items[i].rec)
                ELSE {} : i \in DOMAIN items}
      : name \in DOMAIN rec \cap DOMAIN Relations(cls) }

\* the records the last operation ingested
Ingested ==
  IF last.op = "upsert" THEN last.in.records
  ELSE IF last.op = "upsertQuery" /\ last.in.records # None THEN last.in.records[1]
  ELSE <<>>

\* everything the last operation's input states about relations
Statements == UNION {RecordStatements(last.in.klass, Ingested[i]) : i \in DOMAIN Ingested}

\* every edge the last operation's input states
InputEdges ==
  UNION {{[src |-> st.src, name |-> st.name, dst |-> d] : d \in st.dsts} : st \in Statements}

\* the input itself states something that excludes the edge e: another value
\* for the same relation of e.src, a value for the inverse relation of e.dst
\* that omits e.src, or a second source for a to-one inverse slot
Contradicted(e) ==
  LET rel == Relations(e.src[1])[e.name]
  IN \/ \E st \in Statements : st.src = e.src /\ st.name = e.name /\ e.dst \notin st.dsts
     \/ /\ HasInverse(e.src[1], e.name)
        /\ \/ \E st \in Statements :
                st.src = e.dst /\ st.name = rel.inverse /\ e.src \notin st.dsts
           \/ /\ InverseRelation(e.src[1], e.name).cardinality = "one"
              /\ \E f \in InputEdges :
                   f.dst = e.dst /\ f.name = e.name /\ f.src[1] = e.src[1] /\ f.src # e.src

\* the entity at key t shows the entity at key s in its slot `name`
Shows(h, r, t, name, s) ==
  /\ Has(r.modelMap, t) /\ Has(r.modelMap, s)
  /\ r.modelMap[s] \in Range(SlotEntries(h, r.modelMap[t], name))

(***************************************************************************)
(* C2.  After upsert has ingested an entity S with a relation populated    *)
(* whose inverse exists on the target type, every target T, read back with *)
(* getModel, shows S in its inverse slot.                                  *)
(***************************************************************************)
EdgeShown(e) ==
  Shows(heap, repo, e.dst, Relations(e.src[1])[e.name].inverse, e.src)

C2_Ingested == last.op \in {"upsert", "upsertQuery"} /\ last.err = ""

\* for every edge of the input that the input does not itself contradict
C2_InverseShown ==
  C2_Ingested =>
    \A e \in InputEdges : (HasInverse(e.src[1], e.name) /\ ~Contradicted(e)) => EdgeShown(e)

(***************************************************************************)
(* C3.  Re-ingesting S with a new value for a relation retracts S from the *)
(* inverse slot of every target it no longer names, for a to-one and for a *)
(* to-many forward relation.                                               *)
(***************************************************************************)
\* the keys the edge at relationKey points at in snapshot r
EdgeTargets(h, r, relationKey) ==
  IF ~Has(r.relationMap, relationKey) THEN {}
  ELSE LET v == r.relationMap[relationKey]
       IN IF v.t = "arr" THEN Range(h.arrs[v.a])
          ELSE IF v.t = "key" THEN {v.k} ELSE {}

\* the targets a statement of the input drops from the edge it restates
Dropped(st) == EdgeTargets(heap, repo, RelationKey(st.src, st.name)) \ st.dsts

\* the input says nothing else about the relation st restates, nor about
\* the inverse relation of target t
Plain(st, t) ==
  \A o \in Statements' :
    /\ (o.src = st.src /\ o.name = st.name) => o = st
    /\ o.src # t

Retracts(st) ==
  \A t \in Dropped(st) :
    Plain(st, t) =>
      ~Shows(heap', repo', t, Relations(st.src[1])[st.name].inverse, st.src)

C3_StaleRetracted ==
  [][Succeeded("upsert") =>
       \A st \in Statements' : HasInverse(st.src[1], st.name) => Retracts(st)]_vars

(***************************************************************************)
(* C4.  The relation table is symmetric in every reachable state: an edge  *)
(* from S to T through a relation with an inverse is matched by an edge    *)
(* from T through the inverse relation that contains S.                    *)
(***************************************************************************)
Symmetric(h, r) ==
  \A rk \in DOMAIN r.relationMap :
    HasInverse(rk[1], rk[3]) =>
      \A t \in EdgeTargets(h, r, rk) :
        OwnerKey(rk) \in
          EdgeTargets(h, r, RelationKey(t, Relations(rk[1])[rk[3]].inverse))

C4_Symmetric == Symmetric(heap, repo)

(***************************************************************************)
(* C5.  After an upsert that ingests or re-derives an entity E, every row  *)
(* of every Query that lists E holds the instance getModel now returns for *)
(* E; every other row, every hole and the number of rows are as before.    *)
(***************************************************************************)
\* the keys the step gave a new instance: the ingested and re-derived ones
Touched ==
  {k \in DOMAIN repo'.modelMap : ~Has(repo.modelMap, k) \/ repo'.modelMap[k] # repo.modelMap[k]}

RowsFollow(queryKey) ==
  LET old == repo.queryMap[queryKey].models
      new == repo'.queryMap[queryKey].models
      cls == repo.queryMap[queryKey].modelClass
  IN /\ Len(new) = Len(old)
     /\ \A i \in DOMAIN old :
          IF old[i] > 0 /\ KeyOf(heap, old[i]) \in Touched
          THEN new[i] = getModel(repo', cls, heap.models[old[i]].record.id)
          ELSE new[i] = old[i]

C5_RowsFollow ==
  [][Succeeded("upsert") =>
       /\ DOMAIN repo'.queryMap = DOMAIN repo.queryMap
       /\ \A queryKey \in DOMAIN repo.queryMap : RowsFollow(queryKey)]_vars

(***************************************************************************)
(* C6.  There is one current instance per key, and every entry of a        *)
(* relation slot of a current instance that holds an entity is the         *)
(* identical instance getModel returns for that entity's key.              *)
(***************************************************************************)
SlotsCurrent(h, r) ==
  \A k \in DOMAIN r.modelMap :
    /\ KeyOf(h, r.modelMap[k]) = k
    /\ \A name \in DOMAIN Slots(h, r.modelMap[k]) :
         \A e \in Range(SlotEntries(h, r.modelMap[k], name)) :
           e > 0 => e = getModel(r, h.models[e].cls, h.models[e].record.id)

C6_SlotsCurrent == SlotsCurrent(heap, repo)

(***************************************************************************)
(* C7.  After expunge of an entity X that exists: getModel returns         *)
(* undefined for X; every Query that listed X has lost exactly the rows    *)
(* that listed it; no relation slot of a remaining entity references X.    *)
(***************************************************************************)
\* the row holds an instance of the entity at key x
Lists(h, row, x) == row > 0 /\ KeyOf(h, row) = x

RowsWithout(h, models, x) == SelectSeq(models, LAMBDA row : ~Lists(h, row, x))

\* the keys of the entities the rows of a sequence hold, holes as <<>>
RowKeys(h, models) ==
  [i \in DOMAIN models |-> IF models[i] > 0 THEN KeyOf(h, models[i]) ELSE <<>>]

Gone(x) == getModel(repo', x[1], x[2]) = 0

RowsSpliced(x) ==
  \A queryKey \in DOMAIN repo.queryMap :
    /\ Has(repo'.queryMap, queryKey)
    /\ RowKeys(heap', repo'.queryMap[queryKey].models)
         = RowKeys(heap, RowsWithout(heap, repo.queryMap[queryKey].models, x))

SlotsCleared(x) ==
  \A k \in DOMAIN repo'.modelMap :
    \A e \in SlotRefs(heap', repo'.modelMap[k]) : KeyOf(heap', e) # x

ExpungedExisting(x) ==
  /\ Succeeded("expunge")
  /\ x = ModelKey(last'.in.klass, last'.in.id)
  /\ Has(repo.modelMap, x)

C7_Expunged ==
  [][\A x \in DOMAIN repo.modelMap :
       ExpungedExisting(x) => (Gone(x) /\ RowsSpliced(x) /\ SlotsCleared(x))]_vars

(***************************************************************************)
(* C8.  expungeQuery completes, and in the snapshot it yields getQuery is  *)
(* undefined for the query and getModel is undefined for every entity the  *)
(* Query listed.                                                           *)
(***************************************************************************)
QueryExpunged(klass, options) ==
  /\ last'.err = ""
  /\ getQuery(repo', klass, options) = None
  /\ LET listed == getQuery(repo, klass, options)
     IN listed # None =>
          \A i \in DOMAIN listed[1].models :
            listed[1].models[i] > 0 =>
              getModel(repo', klass, heap.models[listed[1].models[i]].record.id) = 0

C8_QueryExpunged ==
  [][(Operated /\ last'.op = "expungeQuery") =>
       QueryExpunged(last'.in.klass, last'.in.options)]_vars

(***************************************************************************)
(* C9.  Ingestion is idempotent: ingesting the same records a second time  *)
(* leaves every entity with the same attributes, lifecycle state, errors   *)
(* and relation slots as the first ingestion did.                          *)
(***************************************************************************)
\* the step ingests again what the last operation ingested
Reingests ==
  /\ last.op = "upsert" /\ last.err = ""
  /\ Succeeded("upsert")
  /\ last'.in = last.in

C9_Idempotent ==
  [][Reingests => Entities(heap', repo') = Entities(heap, repo)]_vars

(***************************************************************************)
(* C10.  After upsertQuery with records and paging {pageSize, count} for   *)
(* page p, the Query has exactly count rows, the records' entities occupy  *)
(* the rows from p * pageSize onward in order, and every other row is as   *)
(* it was before the call.                                                 *)
(***************************************************************************)
PagePlaced(in) ==
  LET queryId == QueryId(in.klass, in.options)
      old == IF Has(repo.queryMap, queryId) THEN RowKeys(heap, repo.queryMap[queryId].models)
             ELSE <<>>
      models == repo'.queryMap[queryId].models
      new == RowKeys(heap', models)
      records == in.records[1]
      start == in.page * in.paging[1].pageSize
  IN /\ Len(new) = in.paging[1].count
     /\ \A i \in DOMAIN records :
          /\ start + i \in DOMAIN new
          /\ models[start + i] = getModel(repo', in.klass, records[i].id)
          /\ models[start + i] > 0
     /\ \A j \in DOMAIN new :
          j \notin (start + 1)..(start + Len(records)) =>
            new[j] = IF j \in DOMAIN old THEN old[j] ELSE <<>>

PagedIngest == Succeeded("upsertQuery") /\ last'.in.records # None /\ last'.in.paging # None

\* as stated: for every page
C10_PagePlaced_Orig == [][PagedIngest => PagePlaced(last'.in)]_vars

\* the page lies within the count
Fits(in) == in.page * in.paging[1].pageSize + Len(in.records[1]) <= in.paging[1].count

\* for every page that lies within the count
C10_PagePlaced == [][(PagedIngest /\ Fits(last'.in)) => PagePlaced(last'.in)]_vars

\* a second page has been placed in a Query that held an earlier page, and
\* the row of the earlier page is still there
C10_Witness ==
  /\ last.op = "upsertQuery" /\ last.err = ""
  /\ last.in.records # None /\ last.in.paging # None /\ Fits(last.in)
  /\ last.in.page = 1
  /\ LET queryId == QueryId(last.in.klass, last.in.options)
     IN /\ Has(prev.queryMap, queryId)
        /\ prev.queryMap[queryId].models[1] > 0
        /\ repo.queryMap[queryId].models[1] > 0
        /\ Len(repo.queryMap[queryId].models) = last.in.paging[1].count
        /\ repo.queryMap[queryId].models[2]
             = getModel(repo, last.in.klass, last.in.records[1][1].id)

(***************************************************************************)
(* C17.  upsert throws whenever a record it is given, or a record nested   *)
(* in it, lacks an id, has a to-many relation value that is not an array,  *)
(* or has a relation value (a to-one value, an element of a to-many        *)
(* value) that is neither an id, a record with an id, nor null.            *)
(***************************************************************************)
\* a value that names no entity and is not null
Unloadable(v) == ~Names(v) /\ v.t # "null"

\* the records inlined in a relation value
Inlined(v) ==
  IF v.t = "rec" THEN {v.rec}
  ELSE IF v.t = "arr" THEN {v.arr[i].rec : i \in {j \in DOMAIN v.arr : v.arr[j].t = "rec"}}
  ELSE {}

\* the value v given for the relation name of class cls is malformed
MalformedValue(cls, name, v) ==
  IF Relations(cls)[name].cardinality = "many"
  THEN v.t # "arr" \/ \E i \in DOMAIN v.arr : Unloadable(v.arr[i])
  ELSE Unloadable(v)

RECURSIVE Malformed(_, _)
Malformed(cls, rec) ==
  \/ ~isLoadable(rec)
  \/ \E name \in DOMAIN Relations(cls) \cap DOMAIN rec :
       \/ MalformedValue(cls, name, rec[name])
       \/ \E r \in Inlined(rec[name]) : Malformed(Relations(cls)[name].modelClass, r)

\* C17: an upsert of a malformed record throws
C17_Rejects ==
  [][(Operated /\ last'.op = "upsert"
      /\ \E i \in DOMAIN last'.in.records : Malformed(last'.in.klass, last'.in.records[i]))
     => last'.err # ""]_vars

(***************************************************************************)
(* Steps of the asynchronous machine.                                      *)
(***************************************************************************)
\* the step stages a request of kind op (the call may have thrown)
Requested(op) == nreq' = nreq + 1 /\ last'.op = op

\* the step invokes an action
Invoked == pending' # pending /\ last'.op = "run"

\* the step reduces a result of the given types (the call may have thrown)
Reduced(types) == outcomes' # outcomes /\ last'.op = "reduce" /\ last'.in.result.type \in types

(***************************************************************************)
(* C11.  A page is pending exactly while its request is outstanding:       *)
(* query(type, options, {page: p}) adds p to the pendingPages of the Query *)
(* and leaves the other pages' markers as they were; reducing the result   *)
(* of that request, query:success or query:error, removes p and leaves the *)
(* other pages' markers as they were.                                      *)
(***************************************************************************)
\* the page a query action asked for
PageOf(action) == IF action.paging = None THEN 0 ELSE action.paging[1].page

\* the pendingPages of the Query of a query action in snapshot r
PendingPages(r, action) ==
  IF getQuery(r, action.modelClass, action.options) = None THEN {}
  ELSE getQuery(r, action.modelClass, action.options)[1].pendingPages

\* C11: query marks its page, reducing its result unmarks that page, and no
\* other marker changes
C11_PendingWhileOutstanding ==
  [][/\ (Requested("query") =>
          /\ last'.err = ""
          /\ PendingPages(repo', last'.in)
               = PendingPages(repo, last'.in) \cup {PageOf(last'.in)})
      /\ (Reduced({"query:success", "query:error"}) =>
          /\ last'.err = ""
          /\ PendingPages(repo', last'.in.action)
               = PendingPages(repo, last'.in.action) \ {PageOf(last'.in.action)})]_vars

(***************************************************************************)
(* C12.  fetch(type, id) returns a snapshot in which the entity is in      *)
(* state 'fetching' with the attributes and relation slots it had (the     *)
(* schema defaults and empty slots if it was unknown); reducing a          *)
(* fetch:success result whose record has that id leaves the entity in      *)
(* state 'loaded', without errors, the record's attributes merged over     *)
(* the ones it had.                                                        *)
(***************************************************************************)
\* the attributes of an input record: what is left when its relations are
\* split off
Attributes(cls, record) ==
  [a \in DOMAIN record \ DOMAIN Relations(cls) |-> record[a]]

\* the entity at key k in snapshot r by value; for an unknown entity, the
\* stub that the schema defaults and the default relations give
Stub(k) ==
  [record |-> Merge(defaultRecord(k[1]), [id |-> k[2]]),
   relations |-> [name \in DOMAIN Relations(k[1]) |-> <<>>]]

Had(h, r, k) ==
  IF Has(r.modelMap, k)
  THEN [record |-> EntityValue(h, r.modelMap[k]).record,
        relations |-> EntityValue(h, r.modelMap[k]).relations]
  ELSE Stub(k)

\* fetch stages the entity at key k
Staged(k) ==
  /\ last'.err = ""
  /\ Has(repo'.modelMap, k)
  /\ EntityValue(heap', repo'.modelMap[k]).state = "fetching"
  /\ EntityValue(heap', repo'.modelMap[k]).record = Had(heap, repo, k).record
  /\ EntityValue(heap', repo'.modelMap[k]).relations = Had(heap, repo, k).relations

\* reducing fetch:success loads the record at key k
Loaded(k, record) ==
  /\ last'.err = ""
  /\ Has(repo'.modelMap, k)
  /\ EntityValue(heap', repo'.modelMap[k]).state = "loaded"
  /\ EntityValue(heap', repo'.modelMap[k]).errors = EmptyMap
  /\ EntityValue(heap', repo'.modelMap[k]).record
       = Merge(Had(heap, repo, k).record, Attributes(k[1], record))

\* C12: fetch stages, fetch:success loads
C12_FetchStagesAndLoads ==
  [][/\ (Requested("fetch") => Staged(ModelKey(last'.in.modelClass, last'.in.id)))
      /\ ((Reduced({"fetch:success"}) /\ last'.in.result.record.id = last'.in.action.id)
            => Loaded(ModelKey(last'.in.result.modelClass, last'.in.action.id),
                      last'.in.result.record))]_vars

(***************************************************************************)
(* C13.  Reducing an error result leaves the data as it was: the entity    *)
(* of a fetch:error, update:error or delete:error keeps the attributes     *)
(* and the relation slots the store held for it, the Query of a            *)
(* query:error keeps its rows.                                             *)
(***************************************************************************)
\* the key of the entity an error result is about
AffectedKey(h, result) ==
  IF result.type = "fetch:error" THEN ModelKey(result.modelClass, result.id)
  ELSE KeyOf(h, result.model)

\* the entity at key k, if the store held it, has the attributes and slots
\* it had
DataIntact(k) ==
  Has(repo.modelMap, k) =>
    /\ Has(repo'.modelMap, k)
    /\ EntityValue(heap', repo'.modelMap[k]).record = EntityValue(heap, repo.modelMap[k]).record
    /\ EntityValue(heap', repo'.modelMap[k]).relations
         = EntityValue(heap, repo.modelMap[k]).relations

\* the rows of the Query, by value
Rows(h, r, modelClass, options) ==
  IF getQuery(r, modelClass, options) = None THEN <<>>
  ELSE [i \in DOMAIN getQuery(r, modelClass, options)[1].models |->
          EntryValue(h, getQuery(r, modelClass, options)[1].models[i])]

\* C13: an error result changes no attribute, no relation slot and no row
C13_ErrorKeepsData ==
  [][/\ (Reduced({"fetch:error", "update:error", "delete:error"})
            => DataIntact(AffectedKey(heap, last'.in.result)))
      /\ (Reduced({"query:error"})
            => Rows(heap', repo', last'.in.result.modelClass, last'.in.result.options)
                 = Rows(heap, repo, last'.in.result.modelClass, last'.in.result.options))]_vars

(***************************************************************************)
(* C14.  An update or delete whose Mapper call rejects yields a result     *)
(* whose errors are the MapperError's map, or {base: message} for another  *)
(* reason; reducing that result leaves the stored entity in state 'loaded' *)
(* with those errors; reducing a later update:success of the entity leaves *)
(* it without errors.                                                      *)
(***************************************************************************)
\* the step invokes an update or delete action and the Mapper rejects
RejectedRun ==
  Invoked /\ last'.in.kind \in {"update", "delete"} /\ last'.response.t = "reject"

\* the entity at key k is stored in state 'loaded' with the given errors
LoadedWith(k, errors) ==
  /\ last'.err = ""
  /\ Has(repo'.modelMap, k)
  /\ EntityValue(heap', repo'.modelMap[k]).state = "loaded"
  /\ EntityValue(heap', repo'.modelMap[k]).errors = errors

\* C14: a rejection's errors reach the stored entity, which is 'loaded'; a
\* successful update clears them
C14_RejectionErrors ==
  [][/\ (RejectedRun =>
           /\ last'.out # None
           /\ heap'.models[last'.out[1].model].errors = ErrorsOf(last'.response.error))
      /\ (Reduced({"update:error", "delete:error"}) =>
           LoadedWith(KeyOf(heap, last'.in.result.model),
                      heap.models[last'.in.result.model].errors))
      /\ (Reduced({"update:success"}) =>
           LoadedWith(ModelKey(last'.in.result.modelClass, last'.in.result.record.id),
                      EmptyMap))]_vars

(***************************************************************************)
(* C15.  Invoking an action never throws and yields one result of the      *)
(* action's kind, kind:success or kind:error, whatever the Mapper does;    *)
(* for a Mapper method that is not configured the result is kind:error.    *)
(***************************************************************************)
\* the invocation yielded a result of one of the given types
Yielded(types) ==
  /\ last'.err = ""
  /\ last'.out # None
  /\ last'.out[1].type \in types
  /\ \E o \in outcomes' \ outcomes : o.action = last'.in /\ o.result = last'.out[1]

\* C15: every invocation yields a tagged result of the matching kind
C15_ActionYieldsOutcome ==
  [][Invoked =>
       /\ Yielded({last'.in.kind \o ":success", last'.in.kind \o ":error"})
       /\ (~Configured(last'.in.modelClass, last'.in.kind)
             => Yielded({last'.in.kind \o ":error"}))]_vars

(***************************************************************************)
(* C16.  Last-applied-wins: when the update:success results of two         *)
(* updates of the same entity are both at hand and are reduced one after   *)
(* the other, in either order, each reduction is accepted and leaves the   *)
(* entity in state 'loaded' with the attributes of the result reduced.     *)
(***************************************************************************)
\* the key of the entity of an update:success result
UpdatedKey(result) == ModelKey(result.modelClass, result.record.id)

\* o is the outcome of a successful update of the entity at key k
UpdateOf(o, k) == o.result.type = "update:success" /\ UpdatedKey(o.result) = k

\* the step reduces the first of two such outcomes
FirstOfTwo ==
  /\ Reduced({"update:success"})
  /\ \E o \in outcomes' : UpdateOf(o, UpdatedKey(last'.in.result))

\* the step reduces the second, right after the first
SecondOfTwo ==
  /\ Reduced({"update:success"})
  /\ last.op = "reduce"
  /\ UpdateOf(last.in, UpdatedKey(last'.in.result))

\* the reduction is accepted and the entity has the result's attributes
Wins(result) ==
  /\ last'.err = ""
  /\ Has(repo'.modelMap, UpdatedKey(result))
  /\ EntityValue(heap', repo'.modelMap[UpdatedKey(result)]).state = "loaded"
  /\ \A a \in DOMAIN Attributes(result.modelClass, result.record) :
       EntityValue(heap', repo'.modelMap[UpdatedKey(result)]).record[a] = result.record[a]

\* C16: of two successful updates of one entity, the one reduced last wins
C16_LastAppliedWins ==
  [][(FirstOfTwo \/ SecondOfTwo) => Wins(last'.in.result)]_vars

(***************************************************************************)
(* C18.  delete(model) returns a snapshot in which the stored entity is in *)
(* state 'deleting'; reducing the delete:success result removes the        *)
(* entity: getModel is undefined for it, no row of any Query lists it and  *)
(* no relation slot of another entity references it.                       *)
(***************************************************************************)
\* delete stages the entity at key k
Deleting(k) ==
  /\ last'.err = ""
  /\ Has(repo'.modelMap, k)
  /\ EntityValue(heap', repo'.modelMap[k]).state = "deleting"

\* no row of any Query lists the entity at key x
RowsCleared(x) ==
  \A queryKey \in DOMAIN repo'.queryMap :
    \A row \in Range(repo'.queryMap[queryKey].models) : ~Lists(heap', row, x)

\* the entity at key x is removed from the store
Removed(x) ==
  /\ last'.err = ""
  /\ Gone(x)
  /\ RowsCleared(x)
  /\ SlotsCleared(x)

\* C18: delete stages 'deleting', delete:success removes the entity
C18_DeleteRemoves ==
  [][/\ (Requested("delete") => Deleting(KeyOf(heap, last'.in.model)))
      /\ (Reduced({"delete:success"}) =>
            Removed(ModelKey(last'.in.result.modelClass, last'.in.result.id)))]_vars

(***************************************************************************)
(* C19.  create never stages the draft: create(draft) returns the          *)
(* receiver, and reducing a create:error result returns the receiver, so   *)
(* the draft is reachable from no entity-table entry, query row or         *)
(* relation slot; reducing a create:success result adds the entity in      *)
(* state 'loaded' under the id the Mapper gave it.                         *)
(***************************************************************************)
\* the call returned the snapshot it was made on, from which the draft
\* cannot be reached
ReceiverReturned(draft) ==
  /\ last'.err = ""
  /\ repo' = repo
  /\ View(heap', repo') = View(heap, repo)
  /\ draft \notin Reachable(heap', repo')

\* the entity of a create:success result is stored, 'loaded', with the
\* attributes of the result's record
Created(result) ==
  /\ last'.err = ""
  /\ Has(repo'.modelMap, ModelKey(result.modelClass, result.record.id))
  /\ EntityValue(heap', repo'.modelMap[ModelKey(result.modelClass, result.record.id)]).state
       = "loaded"
  /\ \A a \in DOMAIN Attributes(result.modelClass, result.record) :
       EntityValue(heap', repo'.modelMap[ModelKey(result.modelClass,
                                                  result.record.id)]).record[a]
         = result.record[a]

\* C19: create and create:error return the receiver, create:success adds
\* the entity
C19_CreateNeverStages ==
  [][/\ (Requested("create") => ReceiverReturned(last'.in.model))
      /\ (Reduced({"create:error"}) =>
            /\ ReceiverReturned(last'.in.result.model)
            /\ last'.in.action.model \notin Reachable(heap', repo'))
      /\ (Reduced({"create:success"}) => Created(last'.in.result))]_vars

(***************************************************************************)
(* C20.  Invoking the action of create(draft) against a Mapper that        *)
(* rejects with a MapperError yields a create:error result whose model has *)
(* the MapperError's errors and the draft's attributes; the draft itself   *)
(* is as it was.                                                           *)
(***************************************************************************)
\* the step invokes a create action and the Mapper rejects with a
\* MapperError
CreateRejected ==
  /\ Invoked
  /\ last'.in.kind = "create"
  /\ last'.response.t = "reject"
  /\ last'.response.error.t = "MapperError"

\* the result carries a model with the given errors and the draft's record
Carries(draft, errors) ==
  /\ last'.err = ""
  /\ last'.out # None
  /\ last'.out[1].type = "create:error"
  /\ heap'.models[last'.out[1].model].errors = errors
  /\ heap'.models[last'.out[1].model].record = heap.models[draft].record

\* the draft instance is unchanged
Untouched(draft) ==
  /\ heap'.models[draft] = heap.models[draft]
  /\ heap'.robjs[heap'.models[draft].relations] = heap.robjs[heap.models[draft].relations]

\* C20: a MapperError on create arrives as create:error over the draft
C20_CreateError ==
  [][CreateRejected =>
       /\ Carries(last'.in.model, last'.response.error.errors)
       /\ Untouched(last'.in.model)]_vars

(***************************************************************************)
(* C21.  update(model) returns a snapshot in which the stored entity with  *)
(* the model's id is in state 'updating'; reducing the update:success      *)
(* result leaves that entity in state 'loaded', without errors, its        *)
(* attributes the Mapper's record merged over the stored ones.             *)
(***************************************************************************)
\* update stages the entity at key k
Updating(k) ==
  /\ last'.err = ""
  /\ Has(repo'.modelMap, k)
  /\ EntityValue(heap', repo'.modelMap[k]).state = "updating"

\* C21: update stages 'updating', update:success loads the Mapper's record
C21_UpdateStagesAndLoads ==
  [][/\ (Requested("update") => Updating(KeyOf(heap', last'.in.model)))
      /\ (Reduced({"update:success"}) =>
            Loaded(UpdatedKey(last'.in.result), last'.in.result.record))]_vars

(***************************************************************************)
(* C22.  query(type, options) on a store with no Query for (type, options) *)
(* creates one in state 'getting' with no rows; reducing a query:success   *)
(* result without paging leaves the Query in state 'loaded', its rows the  *)
(* entities of the records, one row per record in the Mapper's order.      *)
(***************************************************************************)
\* the Query of (modelClass, options) in snapshot r is in the given state
\* and its rows hold the entities at the given keys
QueryIs(h, r, modelClass, options, state, keys) ==
  /\ getQuery(r, modelClass, options) # None
  /\ getQuery(r, modelClass, options)[1].state = state
  /\ RowKeys(h, getQuery(r, modelClass, options)[1].models) = keys

\* the keys of the entities of a sequence of records
RecordKeys(modelClass, records) ==
  [i \in DOMAIN records |-> ModelKey(modelClass, records[i].id)]

\* C22: a first query creates an empty Query in state 'getting'; an
\* unpaged query:success loads the records as its rows
C22_QueryCreatesAndLoads ==
  [][/\ ((Requested("query")
           /\ getQuery(repo, last'.in.modelClass, last'.in.options) = None) =>
            /\ last'.err = ""
            /\ QueryIs(heap', repo', last'.in.modelClass, last'.in.options, "getting", <<>>))
      /\ ((Reduced({"query:success"}) /\ last'.in.result.paging = None) =>
            /\ last'.err = ""
            /\ QueryIs(heap', repo', last'.in.result.modelClass, last'.in.result.options,
                       "loaded",
                       RecordKeys(last'.in.result.modelClass, last'.in.result.records)))]_vars

(***************************************************************************)
(* C23.  Queries are independent per options value: a query request, and   *)
(* the reduction of a query result, for (type, options) creates no Query   *)
(* for other options and changes the state, the rows and the pending pages *)
(* of no other Query; so of two queries in flight the one whose result is  *)
(* not reduced stays 'getting'.                                            *)
(***************************************************************************)
\* the options values queries are made with
QueryOptions == {NoOptions, ByX, ByAB, ByBA}

\* what getQuery shows for (modelClass, options) in snapshot r: undefined,
\* or the state, rows and pending pages of the Query
QueryValue(h, r, modelClass, options) ==
  IF getQuery(r, modelClass, options) = None THEN None
  ELSE Some([state |-> getQuery(r, modelClass, options)[1].state,
             rows |-> RowKeys(h, getQuery(r, modelClass, options)[1].models),
             pendingPages |-> getQuery(r, modelClass, options)[1].pendingPages])

\* for every other type and every options value with other key/value
\* pairs, getQuery shows what it showed
OthersKept(modelClass, options) ==
  \A cls \in Classes, o \in QueryOptions :
    (cls # modelClass \/ Range(o) # Range(options)) =>
      QueryValue(heap', repo', cls, o) = QueryValue(heap, repo, cls, o)

\* C23: a query and the reduction of its result touch their own Query only
C23_QueriesIndependent ==
  [][/\ (Requested("query") => OthersKept(last'.in.modelClass, last'.in.options))
      /\ (Reduced({"query:success", "query:error"}) =>
            OthersKept(last'.in.result.modelClass, last'.in.result.options))]_vars

\* two queries of one type with different options were in flight; the
\* result of one has been reduced and its Query is 'loaded', the other
\* Query is still 'getting' with its page pending
C23_Witness ==
  /\ last.op = "reduce" /\ last.err = ""
  /\ last.in.result.type = "query:success"
  /\ QueryIs(heap, repo, "Author", last.in.result.options, "loaded",
             RecordKeys("Author", last.in.result.records))
  /\ \E options \in {NoOptions, ByX} :
       /\ options # last.in.result.options
       /\ getQuery(prev, "Author", options) # None
       /\ getQuery(repo, "Author", options) # None
       /\ getQuery(repo, "Author", options)[1].state = "getting"
       /\ getQuery(repo, "Author", options)[1].pendingPages = {0}
       /\ getQuery(repo, "Author", options)[1].models = <<>>

(***************************************************************************)
(* C24.  Reducing a query:error result leaves the Query of (type, options) *)
(* in state 'error' with error the rejection message: a new Query without  *)
(* rows if there was none, the Query with the rows it had if there was.    *)
(***************************************************************************)
\* the Query of (modelClass, options) is in state 'error' with the message
\* and the rows that (modelClass, options) had
Errored(modelClass, options, message) ==
  /\ last'.err = ""
  /\ getQuery(repo', modelClass, options) # None
  /\ getQuery(repo', modelClass, options)[1].state = "error"
  /\ getQuery(repo', modelClass, options)[1].error = message
  /\ Rows(heap', repo', modelClass, options) = Rows(heap, repo, modelClass, options)

\* C24: query:error puts its Query in state 'error' with the message
C24_QueryError ==
  [][Reduced({"query:error"}) =>
       Errored(last'.in.result.modelClass, last'.in.result.options,
               last'.in.result.error)]_vars

(***************************************************************************)
(* C25.  After upsert of one well-formed record whose relation values are  *)
(* inlined records or bare ids, to any depth, getModel gives every entity  *)
(* the input mentions: one that is inlined with the attributes given for   *)
(* it, one that is only named by id and was unknown as a stub with the     *)
(* schema defaults in state 'loaded'; and a to-many slot lists its targets *)
(* in the order of the input.                                              *)
(***************************************************************************)
\* the record and every record inlined in it, as [key, attrs]
RECURSIVE RecordsIn(_, _)
RecordsIn(cls, rec) ==
  {[key |-> ModelKey(cls, rec.id), attrs |-> Attributes(cls, rec)]}
  \cup UNION { UNION { RecordsIn(Relations(cls)[name].modelClass, r) : r \in Inlined(rec[name]) }
               : name \in DOMAIN rec \cap DOMAIN Relations(cls) }

\* the to-many values of the record and of every record inlined in it, as
\* [src, name, keys], keys in the order of the input
RECURSIVE ListsIn(_, _)
ListsIn(cls, rec) ==
  UNION { (IF Relations(cls)[name].cardinality = "many"
           THEN {[src |-> ModelKey(cls, rec.id), name |-> name,
                  keys |-> [i \in DOMAIN RelatedItems(rec[name]) |->
                              ModelKey(Relations(cls)[name].modelClass,
                                       ItemId(RelatedItems(rec[name])[i]))]]}
           ELSE {})
          \cup UNION { ListsIn(Relations(cls)[name].modelClass, r) : r \in Inlined(rec[name]) }
          : name \in DOMAIN rec \cap DOMAIN Relations(cls) }

\* the last operation was an upsert of one well-formed record
OneRecord ==
  /\ last.op = "upsert"
  /\ Len(last.in.records) = 1
  /\ ~Malformed(last.in.klass, last.in.records[1])

GivenRecords == RecordsIn(last.in.klass, last.in.records[1])

\* every key the input mentions
Mentioned == {r.key : r \in GivenRecords} \cup UNION {st.dsts : st \in Statements}

\* the entity at the key of r has the attributes r gives, where no other
\* record of the input gives another value
OwnAttributes(r) ==
  \A a \in DOMAIN r.attrs :
    (\A o \in GivenRecords : (o.key = r.key /\ a \in DOMAIN o.attrs) => o.attrs[a] = r.attrs[a])
      => EntityValue(heap, repo.modelMap[r.key]).record[a] = r.attrs[a]

\* the input gives no attribute of the entity at key k but its id
OnlyNamed(k) == \A r \in GivenRecords : r.key = k => DOMAIN r.attrs = {"id"}

\* an entity that was unknown and is only named is a stub
StubLoaded(k) ==
  (OnlyNamed(k) /\ ~Has(prev.modelMap, k)) =>
    /\ EntityValue(heap, repo.modelMap[k]).record = Stub(k).record
    /\ EntityValue(heap, repo.modelMap[k]).state = "loaded"

\* a to-many value that nothing else in the input contradicts is the slot,
\* in order
InOrder(l) ==
  (\A i \in DOMAIN l.keys : ~Contradicted([src |-> l.src, name |-> l.name, dst |-> l.keys[i]]))
    => RowKeys(heap, SlotEntries(heap, repo.modelMap[l.src], l.name)) = l.keys

\* C25: every entity an upsert of one record mentions can be retrieved,
\* with its attributes or as a stub, and to-many slots keep the input order
C25_NestedRetrievable ==
  OneRecord =>
    /\ last.err = ""
    /\ \A k \in Mentioned : Has(repo.modelMap, k) /\ StubLoaded(k)
    /\ \A r \in GivenRecords : OwnAttributes(r)
    /\ \A l \in ListsIn(last.in.klass, last.in.records[1]) : InOrder(l)

(***************************************************************************)
(* Steps of the Model machine.                                             *)
(***************************************************************************)
\* the step is a call of the given kind
Called(op) == nops' = nops + 1 /\ last'.op = op

(***************************************************************************)
(* C26.  model.set(partial), when it returns, returns a new Entity whose   *)
(* attributes are the old ones shallow-merged with partial and whose dirty *)
(* set is the old one plus every key of partial; the original Entity, and  *)
(* every other, is as it was; and isDirty holds of an Entity exactly when  *)
(* an attribute or a relation was set on the way to it.                    *)
(***************************************************************************)
\* the instance a call returned is a new one
Fresh == last'.out \in DOMAIN heap'.models \ DOMAIN heap.models

\* every instance there was is as it was, relation slots included
Originals ==
  \A m \in DOMAIN heap.models :
    /\ heap'.models[m] = heap.models[m]
    /\ heap'.robjs[heap'.models[m].relations] = heap.robjs[heap.models[m].relations]

\* set returned the merge of the receiver and the patch
Merged(m, patch) ==
  /\ Fresh
  /\ heap'.models[last'.out].record = Merge(heap.models[m].record, patch)
  /\ heap'.models[last'.out].dirty = heap.models[m].dirty \cup DOMAIN patch
  /\ isDirty(heap', last'.out) <=> (isDirty(heap, m) \/ DOMAIN patch # {})

\* C26: set derives a merged, dirtier Entity and changes no other
C26_SetDerives ==
  [][/\ (Called("set") =>
           /\ Originals
           /\ (last'.err = "" => Merged(last'.model, last'.in)))
      /\ ((Called("new") /\ last'.err = "") => (Fresh /\ ~isDirty(heap', last'.out)))
      /\ ((Called("setRelated") /\ last'.err = "") =>
            (Fresh /\ Originals /\ isDirty(heap', last'.out)))]_vars

\* set has added a second dirty attribute to an Entity that had one, and
\* the receiver still has its one
C26_Witness ==
  /\ last.op = "set" /\ last.err = ""
  /\ heap.models[last.model].dirty = {"title"}
  /\ heap.models[last.model].record.id = 0
  /\ heap.models[last.out].dirty = {"id", "title"}
  /\ heap.models[last.out].record = Merge(heap.models[last.model].record, [id |-> 7])
  /\ isDirty(heap, last.out)

(***************************************************************************)
(* C27.  When model.set(partial) validates.  As stated: whenever the patch *)
(* changes the attributes or dirties an attribute, and then set fails if   *)
(* the merged attributes do not conform to the schema; only a patch that   *)
(* changes and dirties nothing is not validated.  As the code has it: only *)
(* when the dirty set that results is empty, that is for an empty patch on *)
(* a receiver without dirty attributes, and then set fails if the          *)
(* attributes do not conform; a patch that names an attribute, or a dirty  *)
(* receiver, is never validated.                                           *)
(***************************************************************************)
\* the merged attributes of the set described by last' do not conform
Nonconforming ==
  ~Validates(heap.models[last'.model].cls, Merge(heap.models[last'.model].record, last'.in))

\* as stated: a patch that names an attribute is validated, an empty one
\* is not
C27_SetValidates_Orig ==
  [][Called("set") =>
       /\ ((DOMAIN last'.in # {} /\ Nonconforming) => last'.err # "")
       /\ (DOMAIN last'.in = {} => last'.err = "")]_vars

\* the dirty set that results is empty
NothingDirty == heap.models[last'.model].dirty \cup DOMAIN last'.in = {}

\* set fails exactly when nothing is dirty and the attributes do not conform
C27_SetValidates ==
  [][Called("set") => (last'.err # "" <=> (NothingDirty /\ Nonconforming))]_vars

\* set has returned an Entity whose attributes do not conform to the schema
C27_Witness ==
  /\ last.op = "set" /\ last.err = ""
  /\ last.in = [title |-> ""]
  /\ Validates(heap.models[last.model].cls, heap.models[last.model].record)
  /\ heap.models[last.model].dirty = {}
  /\ ~Validates(heap.models[last.out].cls, heap.models[last.out].record)

(***************************************************************************)
(* C28.  The query key does not depend on the order in which the keys of   *)
(* the options were inserted: for options with the same key/value pairs in *)
(* another order, query and the upsertQuery that reduces its result        *)
(* address the one Query that getQuery gives for either order.             *)
(***************************************************************************)
\* the options values with the key/value pairs of options
Reordered(options) == {o \in QueryOptions : Range(o) = Range(options)}

\* the Queries of modelClass whose options have those key/value pairs
QueriesFor(r, modelClass, options) ==
  {queryId \in DOMAIN r.queryMap :
     /\ r.queryMap[queryId].modelClass = modelClass
     /\ Range(r.queryMap[queryId].options) = Range(options)}

\* there is one Query for the options, and getQuery gives it for any order
OneQuery(modelClass, options) ==
  /\ \E queryId \in DOMAIN repo'.queryMap :
       QueriesFor(repo', modelClass, options) = {queryId}
  /\ \A o \in Reordered(options) :
       getQuery(repo', modelClass, o) = getQuery(repo', modelClass, options)
  /\ getQuery(repo', modelClass, options) # None

BucketGone(x) == ~Has(repo'.relationIndex, x)

\* no bucket of the relation index names an edge that x owns
EdgesUnnamed(x) ==
  \A k \in DOMAIN repo'.relationIndex :
    \A relationKey \in Range(heap'.bkts[repo'.relationIndex[k]]) :
      OwnerKey(relationKey) # x

\* the relation table has no edge out of x and none into x
EdgesGone(x) ==
  \A relationKey \in DOMAIN repo'.relationMap :
    /\ OwnerKey(relationKey) # x
    /\ x \notin EdgeTargets(heap', repo', relationKey)

RowsGone(x) ==
  \A queryKey \in DOMAIN repo'.queryMap :
    \A i \in DOMAIN repo'.queryMap[queryKey].models :
      ~Lists(heap', repo'.queryMap[queryKey].models[i], x)

\* C29: after expunge of X no index bucket, edge or query row refers to X
C29_NothingRefers ==
  [][\A x \in DOMAIN repo.modelMap :
       ExpungedExisting(x) =>
         (BucketGone(x) /\ EdgesUnnamed(x) /\ EdgesGone(x) /\ RowsGone(x))]_vars

(***************************************************************************)
(* C30.  Removal leaves the store usable: after expunge(X), or after the   *)
(* delete:success result for X was reduced, the operations that follow on  *)
(* the remaining entities complete and dereference neither the removed     *)
(* entity nor a removed Query.  Stated for the operation that follows the  *)
(* removal directly.                                                       *)
(***************************************************************************)
\* the step that led to this state removed the entity at key x
JustRemoved(x) ==
  /\ last.op \in {"expunge", "reduce"}
  /\ last.err = ""
  /\ IF last.op = "expunge" THEN x = ModelKey(last.in.klass, last.in.id)
     ELSE /\ last.in.result.type = "delete:success"
          /\ x = ModelKey(last.in.result.modelClass, last.in.result.id)
  /\ Has(prev.modelMap, x)
  /\ ~Has(repo.modelMap, x)

\* C30: the operation after a removal does not end in a TypeError
C30_UsableAfterRemoval ==
  [][(\E x \in DOMAIN prev.modelMap : JustRemoved(x)) => last'.err # "TypeError"]_vars

(***************************************************************************)
(* C31.  A failed ingestion has no effect: when upsert or upsertQuery      *)
(* raises an error for its input, the snapshot it was called on is         *)
(* unchanged, in what it shows and in its relation table and reverse       *)
(* index.                                                                  *)
(***************************************************************************)
\* the step is an upsert or upsertQuery that raised an error for its input
Failed ==
  /\ Operated
  /\ last'.op \in {"upsert", "upsertQuery"}
  /\ last'.err \notin {"", "TypeError"}

\* the reverse index of a snapshot by content
IndexValue(h, r) ==
  [k \in DOMAIN r.relationIndex |-> Range(h.bkts[r.relationIndex[k]])]

\* the relation table of a snapshot by content
TableValue(h, r) ==
  [relationKey \in DOMAIN r.relationMap |->
     IF r.relationMap[relationKey].t = "arr"
     THEN h.arrs[r.relationMap[relationKey].a]
     ELSE <<r.relationMap[relationKey]>>]

SnapshotKept(r) ==
  /\ View(heap', r) = View(heap, r)
  /\ IndexValue(heap', r) = IndexValue(heap, r)
  /\ TableValue(heap', r) = TableValue(heap, r)

\* C31: an upsert or upsertQuery that raises leaves its snapshot as it was
C31_FailedNoEffect == [][Failed => (repo' = repo /\ SnapshotKept(repo))]_vars

(***************************************************************************)
(* C32.  expunge(X) changes the other entities in their relation slots     *)
(* only: the attributes, the lifecycle state and the errors of every other *)
(* stored entity are the same after the call as before.                    *)
(***************************************************************************)
\* attributes, lifecycle state and errors of the entity at key k
Particulars(h, r, k) ==
  [record |-> EntityValue(h, r.modelMap[k]).record,
   state |-> EntityValue(h, r.modelMap[k]).state,
   errors |-> EntityValue(h, r.modelMap[k]).errors]

OthersAsBefore(x) ==
  \A k \in DOMAIN repo.modelMap \ {x} :
    /\ Has(repo'.modelMap, k)
    /\ Particulars(heap', repo', k) = Particulars(heap, repo, k)

\* C32: expunge leaves attributes, state and errors of the others alone
C32_ExpungeFrame ==
  [][\A x \in DOMAIN repo.modelMap : ExpungedExisting(x) => OthersAsBefore(x)]_vars

(***************************************************************************)
(* Ingestion while actions are outstanding: the asynchronous operations on *)
(* Post 1 together with upserts of records that mention Post 1 in a        *)
(* relation value only.                                                    *)
(***************************************************************************)
\* upsert(Post, {id: 1, title: 'a', author: homer}),
\* upsert(Comment, {id: 2, post: 1}), upsert(Author, {id: 11, posts: [{id: 1}]}),
\* upsert(Post, {id: 1}, {state: 'new'})
MentionInputs ==
  << [op |-> "upsert", klass |-> "Post", state |-> "loaded",
      records |-> <<[id |-> 1, title |-> "a", author |-> Rec(Homer)]>>],
     [op |-> "upsert", klass |-> "Comment", state |-> "loaded",
      records |-> <<[id |-> 2, post |-> Id(1)]>>],
     [op |-> "upsert", klass |-> "Author", state |-> "loaded",
      records |-> <<[id |-> 11, posts |-> Arr(<<Rec([id |-> 1])>>)]>>],
     [op |-> "upsert", klass |-> "Post", state |-> "new", records |-> <<[id |-> 1]>>] >>

\* repo = repo.upsert(klass, record, {state})
Ingest ==
  /\ nops < MaxSyncs
  /\ nops' = nops + 1
  /\ \E i \in DOMAIN MentionInputs :
       Call(upsert(heap, repo, MentionInputs[i].klass, MentionInputs[i].records,
                   MentionInputs[i].state, EmptyMap),
            "upsert", MentionInputs[i])
  /\ UNCHANGED <<pending, outcomes, nreq>>

NextMention == Ingest \/ Fetch \/ Update \/ Delete \/ Run \/ Reduce

SpecMention == InitAsync /\ [][NextMention]_vars

(***************************************************************************)
(* C33.  Ingesting a record that mentions a stored entity by bare id, or   *)
(* as an object holding just its id, in a relation value leaves that       *)
(* entity's attributes, lifecycle state and errors as they were.           *)
(***************************************************************************)
\* the related value names its entity and says nothing else about it
Bare(item) == item.t = "id" \/ (item.t = "rec" /\ DOMAIN item.rec = {"id"})

\* the keys a record of class cls mentions in that way
BareMentions(cls, rec) ==
  UNION {{ModelKey(Relations(cls)[name].modelClass, ItemId(RelatedItems(rec[name])[i])) :
            i \in {j \in DOMAIN RelatedItems(rec[name]) : Bare(RelatedItems(rec[name])[j])}}
         : name \in DOMAIN rec \cap DOMAIN Relations(cls)}

\* C33: a stored entity mentioned only by its id keeps attributes, state
\* and errors
C33_MentionFrame ==
  [][Succeeded("upsert") =>
       \A k \in BareMentions(last'.in.klass, last'.in.records[1]) \cap DOMAIN repo.modelMap :
         /\ Has(repo'.modelMap, k)
         /\ Particulars(heap', repo', k) = Particulars(heap, repo, k)]_vars

(***************************************************************************)
(* C34.  A Query in state 'loaded' carries no error: when a query:error    *)
(* was reduced for it, the reduction of a later query:success clears the   *)
(* recorded message.                                                       *)
(***************************************************************************)
\* C34: no Query of the store is 'loaded' with an error message
C34_LoadedNoError ==
  \A queryId \in DOMAIN repo.queryMap :
    repo.queryMap[queryId].state = "loaded" => repo.queryMap[queryId].error = Undefined

(***************************************************************************)
(* C35.  After a query:success result with paging {page, pageSize, count}  *)
(* was reduced, the pageSize of its Query is that pageSize, whether the    *)
(* Query was created by the reduction or existed before, and it keeps the  *)
(* value when later operations rewrite its rows.                           *)
(***************************************************************************)
\* the Query of (modelClass, options) has the page size of the paging
Sized(modelClass, options, paging) ==
  /\ getQuery(repo', modelClass, options) # None
  /\ getQuery(repo', modelClass, options)[1].pageSize = Some(paging.pageSize)

\* a Query that the step does not address keeps its page size
SizesKept ==
  \A queryId \in DOMAIN repo.queryMap \cap DOMAIN repo'.queryMap :
    repo'.queryMap[queryId].pageSize = repo.queryMap[queryId].pageSize

\* C35: a reduced page sets the page size, and other operations keep it
C35_PageSize ==
  [][/\ ((Reduced({"query:success"}) /\ last'.err = "" /\ last'.in.result.paging # None) =>
           Sized(last'.in.result.modelClass, last'.in.result.options,
                 last'.in.result.paging[1]))
      /\ (last'.op \in {"upsert", "expunge", "fetch", "update", "delete", "create"} =>
           SizesKept)]_vars

(***************************************************************************)
(* C36.  String identifiers are ingested like numeric ones: upsert of a    *)
(* record whose id is a string, of an inlined related record whose id is a *)
(* string, and of a bare string id in a relation value succeeds, and the   *)
(* entity is stored under its key with the relation edge pointing at it.   *)
(***************************************************************************)
\* the related values one relation value consists of
ItemsOf(v) == IF v.t = "arr" THEN Range(v.arr) ELSE IF v.t = "null" THEN {} ELSE {v}

\* the record has an id of either type, and so has everything it names, in
\* the shape the cardinality asks for
Identified(cls, rec) ==
  /\ "id" \in DOMAIN rec
  /\ \A name \in DOMAIN rec \cap DOMAIN Relations(cls) :
       /\ (rec[name].t = "arr") = (Relations(cls)[name].cardinality = "many")
       /\ \A x \in ItemsOf(rec[name]) :
            x.t = "id" \/ (x.t = "rec" /\ "id" \in DOMAIN x.rec)

\* the edges a record states, one level deep
EdgesOf(cls, rec) ==
  UNION {{[name |-> name, dst |-> ModelKey(Relations(cls)[name].modelClass, ItemId(x))] :
            x \in ItemsOf(rec[name])}
         : name \in DOMAIN rec \cap DOMAIN Relations(cls)}

\* some identifier in the record is a string
WithString(cls, rec) ==
  \/ typeof(rec.id) = "string"
  \/ \E e \in EdgesOf(cls, rec) : typeof(e.dst[2]) = "string"

\* the record and everything it names is stored, and the edges it states
\* are in the relation table
StoredWithEdges(cls, rec) ==
  /\ last'.err = ""
  /\ Has(repo'.modelMap, ModelKey(cls, rec.id))
  /\ \A e \in EdgesOf(cls, rec) :
       /\ Has(repo'.modelMap, e.dst)
       /\ e.dst \in EdgeTargets(heap', repo', RelationKey(ModelKey(cls, rec.id), e.name))

\* C36: an upsert whose identifiers include a string succeeds like any other
C36_StringIds ==
  [][(/\ Operated /\ last'.op = "upsert"
      /\ Len(last'.in.records) = 1
      /\ Identified(last'.in.klass, last'.in.records[1])
      /\ WithString(last'.in.klass, last'.in.records[1]))
       => StoredWithEdges(last'.in.klass, last'.in.records[1])]_vars

(***************************************************************************)
(* C37.  In every reachable state each entity of the entity table is in    *)
(* lifecycle state 'loaded', 'fetching', 'updating' or 'deleting' and is   *)
(* not dirty, also after a caller's dirty entity went through update or    *)
(* delete and the error result was reduced.                                *)
(***************************************************************************)
StoredStates == {"loaded", "fetching", "updating", "deleting"}

\* as stated: stored entities are in one of the four states and not dirty
C37_StoredClean_Orig ==
  \A k \in DOMAIN repo.modelMap :
    /\ heap.models[repo.modelMap[k]].state \in StoredStates
    /\ ~isDirty(heap, repo.modelMap[k])

\* the entity at key k is in one of the four states, or in the state it
\* was in before the step, or in the target state the step's upsert names
StateAccounted(k) ==
  \/ heap'.models[repo'.modelMap[k]].state \in StoredStates
  \/ /\ Has(repo.modelMap, k)
     /\ heap'.models[repo'.modelMap[k]].state = heap.models[repo.modelMap[k]].state
  \/ /\ last'.op = "upsert"
     /\ heap'.models[repo'.modelMap[k]].state = last'.in.state

\* C37: stored entities are never dirty, and leave the four states only for
\* the target state that an upsert names
C37_StoredClean ==
  [][\A k \in DOMAIN repo'.modelMap :
       StateAccounted(k) /\ ~isDirty(heap', repo'.modelMap[k])]_vars

\* the error result of an update of a dirty entity has been reduced, and
\* the entity is stored
C37_Witness ==
  /\ last.op = "reduce" /\ last.err = ""
  /\ last.in.result.type \in {"update:error", "delete:error"}
  /\ isDirty(heap, last.in.result.model)
  /\ Has(repo.modelMap, KeyOf(heap, last.in.result.model))
  /\ heap.models[repo.modelMap[KeyOf(heap, last.in.result.model)]].errors # EmptyMap

(***************************************************************************)
(* The asynchronous operations under a caller that runs every action it    *)
(* was given and reduces every result it got.                              *)
(***************************************************************************)
NextLive == Fetch \/ Query \/ Update \/ Delete \/ Run \/ Reduce

\* a result was reduced
Reducing == outcomes' # outcomes /\ last'.op = "reduce"

\* weak fairness of Run and of Reduce, WF_vars(Run) /\ WF_vars(Reduce),
\* written out: Run is enabled exactly while an action is pending, Reduce
\* exactly while a result is waiting
Fairness ==
  /\ ([]<>(pending = {}) \/ []<><<Invoked>>_vars)
  /\ ([]<>(outcomes = {}) \/ []<><<Reducing>>_vars)

SpecLive == InitAsync /\ [][NextLive]_vars /\ Fairness

(***************************************************************************)
(* C38.  In-flight markers are eventually cleared: when every action is    *)
(* run and every result reduced, an entity staged as 'fetching',           *)
(* 'updating' or 'deleting' eventually is 'loaded' or removed, and a Query *)
(* in state 'getting' eventually is 'loaded' or in state 'error'.  Stated  *)
(* for the types whose Mapper configures the operations.                   *)
(***************************************************************************)
InFlight(k) ==
  /\ Has(repo.modelMap, k)
  /\ heap.models[repo.modelMap[k]].state \in {"fetching", "updating", "deleting"}

Settled(k) == Has(repo.modelMap, k) => heap.models[repo.modelMap[k]].state = "loaded"

Getting(modelClass, options) ==
  /\ getQuery(repo, modelClass, options) # None
  /\ getQuery(repo, modelClass, options)[1].state = "getting"

Answered(modelClass, options) ==
  /\ getQuery(repo, modelClass, options) # None
  /\ getQuery(repo, modelClass, options)[1].state \in {"loaded", "error"}

\* C38: what is staged is eventually loaded or removed, what is being got
\* is eventually loaded or in error
C38_MarkersCleared ==
  /\ \A t \in Targets :
       InFlight(ModelKey(t.klass, t.id)) ~> Settled(ModelKey(t.klass, t.id))
  /\ \A options \in QueryOptions :
       Getting("Author", options) ~> Answered("Author", options)

\* no action is left to run and no result is left to reduce
Quiet == pending = {} /\ outcomes = {}

RECURSIVE Sum(_)
Sum(f) ==
  IF DOMAIN f = {} THEN 0
  ELSE LET x == CHOOSE y \in DOMAIN f : TRUE
       IN f[x] + Sum([z \in DOMAIN f \ {x} |-> f[z]])

\* how many records and ids a record of class cls names, itself included
RECURSIVE Mentions(_, _)
Mentions(cls, rec) ==
  1 + Sum([name \in DOMAIN rec \cap DOMAIN Relations(cls) |->
             Sum([i \in DOMAIN RelatedItems(rec[name]) |->
                    IF RelatedItems(rec[name])[i].t = "rec"
                    THEN Mentions(Relations(cls)[name].modelClass,
                                  RelatedItems(rec[name])[i].rec)
                    ELSE 1])])

\* the context of upsert(klass, records) when its two while loops are over
Drained(h, this, klass, records) ==
  Then(ProcessQueue(Queue(Context(h, this), klass, records), "loaded", EmptyMap),
       LAMBDA c1 : StartPropagation(c1))

\* how many entries the reverse index of the context holds
IndexEntries(c) ==
  Sum([k \in DOMAIN c.relationIndex |-> Len(c.bkts[c.relationIndex[k]])])

\* both queues are empty, and the loops took no more turns than the input
\* and the reverse index account for
Spent(c, klass, records) ==
  /\ c.recordQueue = <<>>
  /\ c.dirtyModelQueue = <<>>
  /\ c.shifted = Sum([i \in DOMAIN records |-> Mentions(klass, records[i])])
  /\ c.visited >= Len(c.dirtyModelKeys)
  /\ c.visited <= Len(c.dirtyModelKeys) + IndexEntries(c)

\* the patch the first loop of expunge ingests at one turn
PatchAt(r, relationKey, id) ==
  <<Patch(r.heap, r.heap.models[r.repo.modelMap[OwnerKey(relationKey)]],
          relationKey[3], id)>>

\* every upsert the first loop of expunge issues, over the keys the bucket
\* had when the loop began, has drained both queues within the bound
RECURSIVE UnrelateSpent(_, _, _, _)
UnrelateSpent(r, bucket, keys, id) ==
  IF keys = <<>> \/ r.err # "" THEN TRUE
  ELSE IF Head(keys) \notin Range(r.heap.bkts[bucket])
  THEN UnrelateSpent(r, bucket, Tail(keys), id)
  ELSE LET r1 == UnrelateOne(r, OwnerKey(Head(keys)), Head(keys)[3], id)
       IN /\ r1.err = "" =>
               Spent(Drained(r.heap, r.repo, OwnerKey(Head(keys))[1],
                             PatchAt(r, Head(keys), id)),
                     OwnerKey(Head(keys))[1], PatchAt(r, Head(keys), id))
          /\ UnrelateSpent(r1, bucket, Tail(keys), id)

\* the step expunges a stored entity that the reverse index has a bucket for
Unrelates(x) ==
  /\ Operated /\ last'.op = "expunge"
  /\ x = ModelKey(last'.in.klass, last'.in.id)
  /\ Has(repo.modelMap, x) /\ Has(repo.relationIndex, x)

\* C39: an upsert that does not throw has drained both queues within the
\* bound, and so has every upsert that an expunge issues
C39_QueuesDrain ==
  [][/\ Succeeded("upsert") =>
          LET c == Drained(heap, repo, last'.in.klass, last'.in.records)
          IN c.err = "" /\ Spent(c, last'.in.klass, last'.in.records)
     /\ \A x \in DOMAIN repo.modelMap :
          Unrelates(x) =>
            UnrelateSpent([heap |-> heap, repo |-> repo, err |-> ""],
                          repo.relationIndex[x], heap.bkts[repo.relationIndex[x]],
                          last'.in.id)]_vars

\* two stored posts of one stored author, each edge with its inverse, were
\* ingested again in one call, and the author was derived anew
C39_Witness ==
  /\ last.op = "upsert" /\ last.err = ""
  /\ last.in.records = <<PostA, PostB>>
  /\ \A id \in {1, 2} :
       /\ Has(prev.modelMap, ModelKey("Post", id))
       /\ Has(prev.relationIndex, ModelKey("Post", id))
       /\ RelationKey(ModelKey("Author", 10), "posts")
            \in Range(heap.bkts[prev.relationIndex[ModelKey("Post", id)]])
       /\ Has(prev.relationIndex, ModelKey("Author", 10))
       /\ RelationKey(ModelKey("Post", id), "author")
            \in Range(heap.bkts[prev.relationIndex[ModelKey("Author", 10)]])
  /\ Has(prev.modelMap, ModelKey("Author", 10))
  /\ repo.modelMap[ModelKey("Author", 10)] # prev.modelMap[ModelKey("Author", 10)]

====
